---- MODULE Spec2Model ----
(***************************************************************************)
(* Evaluation domains and radix-2 FFT kernels of snarkVM                   *)
(* (algorithms/src/fft/domain.rs), over a small FFT-friendly prime field,  *)
(* and the Bowe-Hopwood-Pedersen CRH (algorithms/src/crh/bhp.rs) over a    *)
(* small group of prime order.                                             *)
(*                                                                         *)
(* The scalar field Fr of the source has modulus r with r - 1 = 2^47 * t,  *)
(* t odd and > 1.  The model keeps that shape with the smallest such       *)
(* prime: P = 13, P - 1 = 2^2 * 3, multiplicative generator 2.             *)
(***************************************************************************)
EXTENDS Integers, Sequences, FiniteSets, TLC

VARIABLES
    \* EvaluationDomain::new / compute_size_of_domain and the queries on a domain
    num_coeffs,     \* the argument of new / compute_size_of_domain
    build,          \* "debug" (overflow checks, debug assertions) or "release"
    tau,            \* the field element the queries are asked about
    domain,         \* what new(num_coeffs) returned
    domain_size,    \* what compute_size_of_domain(num_coeffs) returned
    vanishing,      \* evaluate_vanishing_polynomial(tau)
    vanishing_poly, \* vanishing_polynomial()
    lagrange,       \* evaluate_all_lagrange_coefficients(tau)
    iter,           \* the Elements iterator
    item,           \* what the last next() returned
    yielded,        \* the items next() has returned since elements()
    calls,          \* the number of next() calls since elements()
    \* fft / ifft / coset_fft / coset_ifft
    coeffs,         \* the coefficient vector handed to fft and coset_fft
    evals,          \* fft(coeffs)
    restored,       \* ifft(evals)
    coset_evals,    \* coset_fft(coeffs)
    coset_restored, \* coset_ifft(coset_evals)
    parallel,       \* whether the crate is built with the "parallel" feature
    num_threads,    \* rayon::current_num_threads()
    \* parallel_radix2_fft
    par_pc,         \* "start", "tasks", "joined", "done"
    a,              \* the array transformed in place
    a_in,           \* the array as it was handed in
    omega,          \* the root of unity handed in
    log_n,          \* log2 of the length of a
    log_cpus,       \* log2 of the number of chunks
    tmp,            \* the per-chunk sub-arrays
    task_pc,        \* per chunk: "todo", "shuffled", "done"
    \* BHPCRH<G, NUM_WINDOWS, WINDOW_SIZE>
    NUM_WINDOWS,    \* the const generic NUM_WINDOWS
    WINDOW_SIZE,    \* the const generic WINDOW_SIZE
    message,        \* the argument of setup, "" for an instance built by from
    input,          \* the bits handed to hash_bits
    crh,            \* the instance: what setup returned, or from(bases)
    hashed,         \* what crh.hash_bits(input) returned
    terms,          \* the table entries the last hash_bits on crh added up
    other,          \* a second instance: a clone, from(crh.bases), read_le
    other_hashed,   \* what other.hash_bits(input) returned
    bytes,          \* what crh.write_le wrote
    \* callers of base_lookup / hash_bits sharing crh
    caller_pc,      \* per caller: "idle", "waiting", "running", "returned"
    caller_bases,   \* per caller: the bases argument of base_lookup
    caller_ret,     \* per caller: the table the call returned
    initializer,    \* the caller running the OnceCell's closure, or 0
    init_runs,      \* how many times the closure has run
    cell_writes     \* how many times the cell has been written

domVars == <<num_coeffs, build, tau, domain, domain_size, vanishing,
             vanishing_poly, lagrange, iter, item, yielded, calls>>
fftVars == <<coeffs, evals, restored, coset_evals, coset_restored,
             parallel, num_threads>>
parVars == <<par_pc, a, a_in, omega, log_n, log_cpus, tmp, task_pc>>
bhpVars == <<NUM_WINDOWS, WINDOW_SIZE, message, input, crh, hashed, terms,
             other, other_hashed, bytes>>
onceVars == <<caller_pc, caller_bases, caller_ret, initializer, init_runs,
              cell_writes>>
\* Results of the remaining domain and hash operations: the quotient by the
\* vanishing polynomial and the inverse transform of the coefficient vector,
\* the table of roots of unity, the powers of a root, a re-indexed position,
\* and the outcome of a rejected hash call.
VARIABLES quotient, inverted, roots, powers, reindexed, failed

extVars == <<quotient, inverted, roots, powers, reindexed, failed>>

vars == <<domVars, fftVars, parVars, bhpVars, onceVars, extVars>>

----------------------------------------------------------------------------
(* Bounds of the model *)

\* Width of usize and u64 in bits (64 in the source), scaled with the field.
UsizeBits == 5
\* An exhausted iterator is polled this many more times.
MaxExtraNext == 2
\* Coefficients of the input vectors range over 0..MaxCoeff.
MaxCoeff == 2
\* rayon's pool has 1..MaxThreads threads.
MaxThreads == 2

----------------------------------------------------------------------------
(* Option values, panics, and values not yet computed *)

None == [kind |-> "None"]
Some(x) == [kind |-> "Some", val |-> x]
Panic == [kind |-> "Panic"]
Unset == [kind |-> "Unset"]

----------------------------------------------------------------------------
(* The field: snarkvm_fields, outside this crate *)

P == 13
TWO_ADICITY == 2
multiplicative_generator == 2
two_adic_root_of_unity == 8

Field == 0 .. (P - 1)
zero == 0
one == 1
add(x, y) == (x + y) % P
sub(x, y) == (x + P - y) % P
mul(x, y) == (x * y) % P
neg(x) == (P - x) % P
from_u64(n) == n % P

RECURSIVE pow(_, _)
pow(x, e) ==
    IF e = 0 THEN one ELSE mul(x, pow(x, e - 1))

inverse(x) ==
    IF x = zero THEN None ELSE Some(pow(x, P - 2))

\* batch_inversion inverts the nonzero entries and leaves the zero ones.
batch_inversion(v) ==
    [i \in DOMAIN v |-> IF v[i] = zero THEN zero ELSE inverse(v[i]).val]

RECURSIVE Pow2(_)
Pow2(k) ==
    IF k = 0 THEN 1 ELSE 2 * Pow2(k - 1)

USIZE_MAX == Pow2(UsizeBits) - 1

RECURSIVE k_adicity_from(_, _, _)
k_adicity_from(k, n, r) ==
    IF n % k = 0 THEN k_adicity_from(k, n \div k, r + 1) ELSE r
\* The number of times k divides n (n > 0).
k_adicity(k, n) == k_adicity_from(k, n, 0)

----------------------------------------------------------------------------
(* Integer helpers of the standard library, as domain.rs calls them *)

RECURSIVE smallest_power_of_two_from(_, _)
smallest_power_of_two_from(n, p) ==
    IF p >= n THEN p ELSE smallest_power_of_two_from(n, 2 * p)

\* usize::next_power_of_two: on overflow it panics with overflow checks and
\* wraps to 0 without them.
next_power_of_two(n, b) ==
    LET p == smallest_power_of_two_from(n, 1) IN
    IF p <= USIZE_MAX THEN Some(p)
    ELSE IF b = "debug" THEN Panic
    ELSE Some(p % (USIZE_MAX + 1))

RECURSIVE trailing_zeros_from(_, _)
trailing_zeros_from(x, r) ==
    IF x % 2 = 1 THEN r ELSE trailing_zeros_from(x \div 2, r + 1)
\* u64::trailing_zeros: the width for 0.
trailing_zeros(x) ==
    IF x = 0 THEN UsizeBits ELSE trailing_zeros_from(x, 0)

RECURSIVE square_times(_, _)
square_times(x, k) ==
    IF k = 0 THEN x ELSE square_times(mul(x, x), k - 1)

\* FftField::get_root_of_unity(n), for a field without a small subgroup:
\* the 2-adic root squared down to order n; None unless n is a power of two
\* of logarithm at most TWO_ADICITY.
get_root_of_unity(n, b) ==
    LET s == next_power_of_two(n, b) IN
    IF s.kind = "Panic" THEN Panic
    ELSE LET size == s.val
             log_size_of_group == trailing_zeros(size) IN
         IF n # size \/ log_size_of_group > TWO_ADICITY THEN None
         ELSE Some(square_times(two_adic_root_of_unity,
                                TWO_ADICITY - log_size_of_group))

----------------------------------------------------------------------------
(* EvaluationDomain *)

\* new, after the root of unity is found: the derived fields.
populate_swapped(size, log_size_of_group, group_gen) ==
    LET size_as_field_element == from_u64(size)
        size_inv == inverse(size_as_field_element)
        group_gen_inv == inverse(group_gen)
        generator_inv == inverse(multiplicative_generator) IN
    IF size_inv.kind # "Some" \/ group_gen_inv.kind # "Some"
       \/ generator_inv.kind # "Some" THEN None
    ELSE Some([size |-> size,
               log_size_of_group |-> log_size_of_group,
               size_as_field_element |-> size_as_field_element,
               size_inv |-> size_inv.val,
               group_gen |-> group_gen,
               group_gen_inv |-> generator_inv.val,
               generator_inv |-> group_gen_inv.val])

populate(size, log_size_of_group, group_gen) ==
    LET size_as_field_element == from_u64(size)
        size_inv == inverse(size_as_field_element)
        group_gen_inv == inverse(group_gen)
        generator_inv == inverse(multiplicative_generator) IN
    IF size_inv.kind # "Some" \/ group_gen_inv.kind # "Some"
       \/ generator_inv.kind # "Some" THEN None
    ELSE Some([size |-> size,
               log_size_of_group |-> log_size_of_group,
               size_as_field_element |-> size_as_field_element,
               size_inv |-> size_inv.val,
               group_gen |-> group_gen,
               group_gen_inv |-> group_gen_inv.val,
               generator_inv |-> generator_inv.val])

\* EvaluationDomain::new(num_coeffs) in build b.
new(n, b) ==
    LET s == next_power_of_two(n, b) IN
    IF s.kind = "Panic" THEN Panic
    ELSE
    LET size == s.val
        log_size_of_group == trailing_zeros(size) IN
    IF log_size_of_group > TWO_ADICITY THEN None
    ELSE
    LET group_gen == get_root_of_unity(size, b) IN
    IF group_gen.kind # "Some" THEN group_gen
    ELSE IF b = "debug" /\ pow(group_gen.val, size) # one THEN Panic
    ELSE populate(size, log_size_of_group, group_gen.val)

\* EvaluationDomain::compute_size_of_domain(num_coeffs) in build b.
compute_size_of_domain(n, b) ==
    LET s == next_power_of_two(n, b) IN
    IF s.kind = "Panic" THEN Panic
    ELSE IF trailing_zeros(s.val) <= TWO_ADICITY THEN Some(s.val)
    ELSE None

\* The domains new can return.
Domains ==
    {new(n, b).val : <<n, b>> \in
        {nb \in (0 .. USIZE_MAX) \X {"debug", "release"} :
            new(nb[1], nb[2]).kind = "Some"}}

----------------------------------------------------------------------------
(* The radix-2 kernels.  Arrays are sequences: a[i] of the source is a[i + 1]. *)

RECURSIVE bitreverse_loop(_, _, _)
bitreverse_loop(n, l, r) ==
    IF l = 0 THEN r ELSE bitreverse_loop(n \div 2, l - 1, (2 * r) + (n % 2))
bitreverse(n, l) == bitreverse_loop(n, l, 0)

swap(arr, i, j) ==
    [arr EXCEPT ![i + 1] = arr[j + 1], ![j + 1] = arr[i + 1]]

\* The permutation without the k < rk test: every pair is swapped twice.
RECURSIVE bit_reversal_permutation_twice(_, _, _, _)
bit_reversal_permutation_twice(arr, k, n, l) ==
    IF k >= n THEN arr
    ELSE bit_reversal_permutation_twice(swap(arr, bitreverse(k, l), k),
                                        k + 1, n, l)

\* for k in 0..n { let rk = bitreverse(k, log_n); if k < rk { a.swap(rk, k) } }
RECURSIVE bit_reversal_permutation(_, _, _, _)
bit_reversal_permutation(arr, k, n, l) ==
    IF k >= n THEN arr
    ELSE LET rk == bitreverse(k, l) IN
         bit_reversal_permutation(IF k < rk THEN swap(arr, rk, k) ELSE arr,
                                  k + 1, n, l)

\* for j in 0..m: one butterfly on a[k + j], a[k + j + m] with twiddle w.
RECURSIVE butterflies(_, _, _, _, _, _)
butterflies(arr, k, j, m, w, w_m) ==
    IF j >= m THEN arr
    ELSE LET t == mul(arr[k + j + m + 1], w)
             lo == arr[k + j + 1]
         IN  butterflies([arr EXCEPT ![k + j + m + 1] = sub(lo, t),
                                     ![k + j + 1] = add(lo, t)],
                         k, j + 1, m, mul(w, w_m), w_m)

\* while k < n { ...; k += 2 * m }
RECURSIVE butterfly_blocks(_, _, _, _, _)
butterfly_blocks(arr, k, n, m, w_m) ==
    IF k >= n THEN arr
    ELSE butterfly_blocks(butterflies(arr, k, 0, m, one, w_m),
                          k + (2 * m), n, m, w_m)

\* for _ in 0..log_n { let w_m = omega.pow(n / (2 * m)); ...; m *= 2 }
RECURSIVE butterfly_passes(_, _, _, _, _, _)
butterfly_passes(arr, i, l, n, m, w) ==
    IF i >= l THEN arr
    ELSE butterfly_passes(
             butterfly_blocks(arr, 0, n, m, pow(w, n \div (2 * m))),
             i + 1, l, n, 2 * m, w)

\* serial_radix2_fft(a, omega, log_n): a after the call, or the panic of
\* assert_eq!(n, 1 << log_n).
serial_radix2_fft(arr, w, l) ==
    LET n == Len(arr) IN
    IF n # Pow2(l) THEN Panic
    ELSE Some(butterfly_passes(bit_reversal_permutation(arr, 0, n, l),
                               0, l, n, 1, w))

\* One chunk's "shuffle into a sub-FFT": tmp[j] after the loops over i and s.
RECURSIVE shuffle_s(_, _, _, _, _, _, _, _)
shuffle_s(arr, acc, elt, i, s, m, m_div_num_chunks, omega_step) ==
    \* returns <<tmp[j][i], elt>> after the loop over s
    IF s * m_div_num_chunks >= m THEN <<acc, elt>>
    ELSE LET idx == (i + (s * m_div_num_chunks)) % m
             t == mul(arr[idx + 1], elt)
         IN  shuffle_s(arr, add(acc, t), mul(elt, omega_step), i, s + 1,
                       m, m_div_num_chunks, omega_step)

RECURSIVE shuffle_i(_, _, _, _, _, _, _, _)
shuffle_i(arr, row, elt, i, m, m_div_num_chunks, omega_step, omega_j) ==
    \* row is tmp[j]: *tmp_t += t adds into what it holds
    IF i >= m_div_num_chunks THEN row
    ELSE LET r == shuffle_s(arr, row[i + 1], elt, i, 0, m, m_div_num_chunks,
                            omega_step)
         IN  shuffle_i(arr, [row EXCEPT ![i + 1] = r[1]], mul(r[2], omega_j),
                       i + 1, m, m_div_num_chunks, omega_step, omega_j)

\* The shuffle with omega_step = omega^j: the chunk's stride is left out.
shuffle_unit_step(arr, row, w, j, num_chunks) ==
    LET m == Len(arr)
        m_div_num_chunks == m \div num_chunks
        omega_j == pow(w, j)
        omega_step == pow(w, j)
    IN  shuffle_i(arr, row, one, 0, m, m_div_num_chunks, omega_step, omega_j)

shuffle(arr, row, w, j, num_chunks) ==
    LET m == Len(arr)
        m_div_num_chunks == m \div num_chunks
        omega_j == pow(w, j)
        omega_step == pow(w, j * m_div_num_chunks)
    IN  shuffle_i(arr, row, one, 0, m, m_div_num_chunks, omega_step, omega_j)

\* vec![vec![T::zero(); m_div_num_chunks]; num_chunks]
zeroed_tmp(m, num_chunks) ==
    [j \in 1 .. num_chunks |-> [i \in 1 .. (m \div num_chunks) |-> zero]]

\* One chunk's "perform sub-FFT".
sub_fft(t, w, num_chunks) ==
    serial_radix2_fft(t, pow(w, num_chunks), k_adicity(2, Len(t)))

\* a.iter_mut().enumerate().for_each(|(i, a)| *a = tmp[i % num_chunks][i / num_chunks])
reassemble(t, m, num_chunks) ==
    [i \in 1 .. m |-> t[((i - 1) % num_chunks) + 1][((i - 1) \div num_chunks) + 1]]

\* parallel_radix2_fft(a, omega, log_n, log_cpus) as a function of its
\* arguments: every chunk run to its end, then the reassembly.
parallel_radix2_fft(arr, w, l, lc) ==
    LET m == Len(arr)
        num_chunks == Pow2(lc)
    IN  IF l < lc \/ m % num_chunks # 0 THEN Panic
        ELSE LET t0 == zeroed_tmp(m, num_chunks)
                 t == [j \in 1 .. num_chunks |->
                          sub_fft(shuffle(arr, t0[j], w, j - 1, num_chunks),
                                  w, num_chunks)]
             IN  IF \E j \in 1 .. num_chunks : t[j].kind = "Panic" THEN Panic
                 ELSE Some(reassemble([j \in 1 .. num_chunks |-> t[j].val],
                                      m, num_chunks))

RECURSIVE log2_floor_from(_, _)
log2_floor_from(num, p) ==
    IF Pow2(p + 1) <= num THEN log2_floor_from(num, p + 1) ELSE p
\* log2_floor(num), num > 0.
log2_floor(num) == log2_floor_from(num, 0)

\* LOG_CPUS for a pool of nt threads.
LOG_CPUS(nt) == log2_floor(nt)

\* best_fft(a, omega, log_n): the serial kernel without the "parallel"
\* feature; with it, the parallel kernel when log_n > LOG_CPUS.
best_fft(arr, w, l, par, nt) ==
    IF ~par \/ l <= LOG_CPUS(nt) THEN serial_radix2_fft(arr, w, l)
    ELSE parallel_radix2_fft(arr, w, l, LOG_CPUS(nt))

----------------------------------------------------------------------------
(* The transforms of a domain D *)

\* Vec::resize(n, zero): truncate or pad on the right.
\* A resize that keeps the last n elements of a longer vector.
resize_keeping_tail(v, n) ==
    [i \in 1 .. n |->
        IF Len(v) > n THEN v[Len(v) - n + i]
        ELSE IF i <= Len(v) THEN v[i] ELSE zero]

\* Vec::resize(n, zero): truncates a longer vector, pads a shorter one.
resize(v, n) ==
    [i \in 1 .. n |-> IF i <= Len(v) THEN v[i] ELSE zero]

scale(v, c) == [i \in DOMAIN v |-> mul(v[i], c)]

fft_in_place(D, v, par, nt) ==
    best_fft(resize(v, D.size), D.group_gen, D.log_size_of_group, par, nt)
fft(D, v, par, nt) == fft_in_place(D, v, par, nt)

\* ifft_in_place without the scaling by size_inv.
ifft_in_place_unscaled(D, v, par, nt) ==
    best_fft(resize(v, D.size), D.group_gen_inv, D.log_size_of_group, par, nt)

ifft_in_place(D, v, par, nt) ==
    LET r == best_fft(resize(v, D.size), D.group_gen_inv,
                      D.log_size_of_group, par, nt)
    IN  IF r.kind = "Some" THEN Some(scale(r.val, D.size_inv)) ELSE r
ifft(D, v, par, nt) == ifft_in_place(D, v, par, nt)

\* divide_by_vanishing_poly_on_coset_in_place with the vanishing polynomial
\* evaluated at one instead of the coset generator.
divide_by_vanishing_poly_at_one(D, v) ==
    LET i == inverse(sub(pow(one, D.size), one))
    IN  IF i.kind = "None" THEN Panic ELSE Some(scale(v, i.val))

\* divide_by_vanishing_poly_on_coset_in_place: inverse().unwrap() panics on
\* None, otherwise every evaluation is multiplied by the inverse.
divide_by_vanishing_poly_on_coset_in_place(D, v) ==
    LET i == inverse(sub(pow(multiplicative_generator, D.size), one))
    IN  IF i.kind = "None" THEN Panic ELSE Some(scale(v, i.val))

\* distribute_powers with pow starting at g: c[i] *= g^(i + 1).
distribute_powers_from_g(v, g) ==
    [i \in DOMAIN v |-> mul(v[i], pow(g, i))]

\* c[i] *= g^i
distribute_powers(v, g) ==
    [i \in DOMAIN v |-> mul(v[i], pow(g, i - 1))]

coset_fft_in_place(D, v, par, nt) ==
    fft_in_place(D, distribute_powers(v, multiplicative_generator), par, nt)
coset_fft(D, v, par, nt) == coset_fft_in_place(D, v, par, nt)

coset_ifft_in_place(D, v, par, nt) ==
    LET r == ifft_in_place(D, v, par, nt)
    IN  IF r.kind = "Some" THEN Some(distribute_powers(r.val, D.generator_inv))
        ELSE r
coset_ifft(D, v, par, nt) == coset_ifft_in_place(D, v, par, nt)

\* DensePolynomial::evaluate: Horner on the coefficients, lowest degree first.
RECURSIVE evaluate_from(_, _, _)
evaluate_from(c, x, i) ==
    IF i > Len(c) THEN zero ELSE add(c[i], mul(x, evaluate_from(c, x, i + 1)))
evaluate(c, x) == evaluate_from(c, x, 1)

----------------------------------------------------------------------------
(* Queries on a domain D *)

\* The search with the comparison after the step: the mark lands one slot early.
RECURSIVE lagrange_search_stepped(_, _, _, _, _)
lagrange_search_stepped(u, i, omega_i, D, t) ==
    IF i >= D.size THEN u
    ELSE IF mul(omega_i, D.group_gen) = t THEN [u EXCEPT ![i + 1] = one]
    ELSE lagrange_search_stepped(u, i + 1, mul(omega_i, D.group_gen), D, t)

\* if omega_i == tau { *x = one; break } omega_i *= group_gen
RECURSIVE lagrange_search(_, _, _, _, _)
lagrange_search(u, i, omega_i, D, t) ==
    IF i >= D.size THEN u
    ELSE IF omega_i = t THEN [u EXCEPT ![i + 1] = one]
    ELSE lagrange_search(u, i + 1, mul(omega_i, D.group_gen), D, t)

\* The loop with l never advanced.
RECURSIVE lagrange_fill_constant_l(_, _, _, _, _, _, _)
lagrange_fill_constant_l(u, ls, l, r, i, D, t) ==
    IF i >= D.size THEN <<u, ls>>
    ELSE lagrange_fill_constant_l([u EXCEPT ![i + 1] = sub(t, r)],
                                  [ls EXCEPT ![i + 1] = l],
                                  l, mul(r, D.group_gen), i + 1, D, t)

\* The loop with u[i] = r - tau.
RECURSIVE lagrange_fill_negated(_, _, _, _, _, _, _)
lagrange_fill_negated(u, ls, l, r, i, D, t) ==
    IF i >= D.size THEN <<u, ls>>
    ELSE lagrange_fill_negated([u EXCEPT ![i + 1] = sub(r, t)],
                               [ls EXCEPT ![i + 1] = l],
                               mul(l, D.group_gen), mul(r, D.group_gen),
                               i + 1, D, t)

\* for i in 0..size { u[i] = tau - r; ls[i] = l; l *= group_gen; r *= group_gen }
RECURSIVE lagrange_fill(_, _, _, _, _, _, _)
lagrange_fill(u, ls, l, r, i, D, t) ==
    IF i >= D.size THEN <<u, ls>>
    ELSE lagrange_fill([u EXCEPT ![i + 1] = sub(t, r)],
                       [ls EXCEPT ![i + 1] = l],
                       mul(l, D.group_gen), mul(r, D.group_gen), i + 1, D, t)

evaluate_all_lagrange_coefficients(D, t) ==
    LET size == D.size
        t_size == pow(t, D.size)
        zeros == [i \in 1 .. size |-> zero]
    IN  IF t_size = one
        THEN lagrange_search(zeros, 0, one, D, t)
        ELSE LET l == mul(sub(t_size, one), D.size_inv)
                 f == lagrange_fill(zeros, zeros, l, one, 0, D, t)
                 u == batch_inversion(f[1])
                 ls == f[2]
             IN  [i \in 1 .. size |-> mul(ls[i], u[i])]

\* The sparse polynomial as (degree, coefficient) pairs.
vanishing_polynomial(D) ==
    << <<0, neg(one)>>, <<D.size, one>> >>

\* SparsePolynomial::evaluate: the sum of coefficient * point^degree.
RECURSIVE sparse_evaluate_from(_, _, _)
sparse_evaluate_from(sp, x, i) ==
    IF i > Len(sp) THEN zero
    ELSE add(mul(sp[i][2], pow(x, sp[i][1])), sparse_evaluate_from(sp, x, i + 1))
sparse_evaluate(sp, x) == sparse_evaluate_from(sp, x, 1)

\* The exponent taken from log_size_of_group instead of size.
evaluate_vanishing_polynomial_log(D, t) ==
    sub(pow(t, D.log_size_of_group), one)

evaluate_vanishing_polynomial(D, t) ==
    sub(pow(t, D.size), one)

\* EvaluationDomain::elements
elements(D) ==
    [cur_elem |-> one, cur_pow |-> 0, domain |-> D]

\* next without the exhaustion test.
next_state_unchecked(it) ==
    [it EXCEPT !.cur_elem = mul(it.cur_elem, it.domain.group_gen),
               !.cur_pow = it.cur_pow + 1]

\* Elements::next: the iterator after the call.
next_state(it) ==
    IF it.cur_pow = it.domain.size THEN it
    ELSE [it EXCEPT !.cur_elem = mul(it.cur_elem, it.domain.group_gen),
                    !.cur_pow = it.cur_pow + 1]

\* Elements::next: what the call returns.
next_item(it) ==
    IF it.cur_pow = it.domain.size THEN None ELSE Some(it.cur_elem)

\* domain.elements().collect()
RECURSIVE collect(_)
collect(it) ==
    IF next_item(it).kind = "None" THEN <<>>
    ELSE <<next_item(it).val>> \o collect(next_state(it))

----------------------------------------------------------------------------
(* Specification of a domain's construction and queries *)

quotIdle == quotient = [kind |-> "Unset"] /\ inverted = [kind |-> "Unset"]

idxIdle ==
    /\ roots = [kind |-> "Unset"]
    /\ powers = [kind |-> "Unset"]
    /\ reindexed = [kind |-> "Unset"]

failIdle == failed = [kind |-> "Unset"]

onceIdle ==
    /\ caller_pc = <<>> /\ caller_bases = <<>> /\ caller_ret = <<>>
    /\ initializer = 0 /\ init_runs = 0 /\ cell_writes = 0

bhpIdle ==
    /\ NUM_WINDOWS = 0 /\ WINDOW_SIZE = 0 /\ message = "" /\ input = <<>>
    /\ crh = Unset /\ hashed = Unset /\ terms = <<>>
    /\ other = Unset /\ other_hashed = Unset /\ bytes = Unset
    /\ onceIdle

fftIdle ==
    /\ coeffs = <<>> /\ evals = Unset /\ restored = Unset
    /\ coset_evals = Unset /\ coset_restored = Unset
    /\ parallel = FALSE /\ num_threads = 1

parIdle ==
    /\ par_pc = "idle" /\ a = <<>> /\ a_in = <<>> /\ omega = one
    /\ log_n = 0 /\ log_cpus = 0 /\ tmp = <<>> /\ task_pc = <<>>

Init ==
    /\ num_coeffs \in 0 .. USIZE_MAX
    /\ build \in {"debug", "release"}
    /\ tau \in Field
    /\ domain = Unset /\ domain_size = Unset
    /\ vanishing = Unset /\ vanishing_poly = Unset /\ lagrange = Unset
    /\ iter = Unset /\ item = Unset /\ yielded = <<>> /\ calls = 0
    /\ fftIdle /\ parIdle /\ bhpIdle
    /\ quotIdle /\ idxIdle /\ failIdle

New ==
    /\ domain = Unset
    /\ domain' = new(num_coeffs, build)
    /\ UNCHANGED <<num_coeffs, build, tau, domain_size, vanishing, vanishing_poly,
                   lagrange, iter, item, yielded, calls, fftVars, parVars,
                   bhpVars, onceVars,
                   extVars>>

ComputeSizeOfDomain ==
    /\ domain_size = Unset
    /\ domain_size' = compute_size_of_domain(num_coeffs, build)
    /\ UNCHANGED <<num_coeffs, build, tau, domain, vanishing, vanishing_poly,
                   lagrange, iter, item, yielded, calls, fftVars, parVars,
                   bhpVars, onceVars,
                   extVars>>

EvaluateVanishingPolynomial ==
    /\ domain.kind = "Some" /\ vanishing = Unset
    /\ vanishing' = Some(evaluate_vanishing_polynomial(domain.val, tau))
    /\ UNCHANGED <<num_coeffs, build, tau, domain, domain_size, vanishing_poly,
                   lagrange, iter, item, yielded, calls, fftVars, parVars,
                   bhpVars, onceVars,
                   extVars>>

VanishingPolynomial ==
    /\ domain.kind = "Some" /\ vanishing_poly = Unset
    /\ vanishing_poly' = Some(vanishing_polynomial(domain.val))
    /\ UNCHANGED <<num_coeffs, build, tau, domain, domain_size, vanishing,
                   lagrange, iter, item, yielded, calls, fftVars, parVars,
                   bhpVars, onceVars,
                   extVars>>

EvaluateAllLagrangeCoefficients ==
    /\ domain.kind = "Some" /\ lagrange = Unset
    /\ lagrange' = Some(evaluate_all_lagrange_coefficients(domain.val, tau))
    /\ UNCHANGED <<num_coeffs, build, tau, domain, domain_size, vanishing,
                   vanishing_poly, iter, item, yielded, calls, fftVars, parVars,
                   bhpVars, onceVars,
                   extVars>>

\* domain.elements(): a fresh iterator, at any time.
ElementsCall ==
    /\ domain.kind = "Some"
    /\ iter' = Some(elements(domain.val))
    /\ item' = Unset /\ yielded' = <<>> /\ calls' = 0
    /\ UNCHANGED <<num_coeffs, build, tau, domain, domain_size, vanishing,
                   vanishing_poly, lagrange, fftVars, parVars,
                   bhpVars, onceVars,
                   extVars>>

\* iter.next()
ElementsNext ==
    /\ iter.kind = "Some"
    /\ calls < iter.val.domain.size + MaxExtraNext
    /\ iter' = Some(next_state(iter.val))
    /\ item' = next_item(iter.val)
    /\ yielded' = IF next_item(iter.val).kind = "Some"
                  THEN Append(yielded, next_item(iter.val).val) ELSE yielded
    /\ calls' = calls + 1
    /\ UNCHANGED <<num_coeffs, build, tau, domain, domain_size, vanishing,
                   vanishing_poly, lagrange, fftVars, parVars,
                   bhpVars, onceVars,
                   extVars>>

Next ==
    \/ New
    \/ ComputeSizeOfDomain
    \/ EvaluateVanishingPolynomial
    \/ VanishingPolynomial
    \/ EvaluateAllLagrangeCoefficients
    \/ ElementsCall
    \/ ElementsNext

Spec == Init /\ [][Next]_vars

----------------------------------------------------------------------------
(* Claims about a domain's construction and queries, checked under Spec *)

\* x is one of the items D.elements() yields.
InElements(D, x) ==
    LET els == collect(elements(D)) IN \E i \in 1 .. Len(els) : els[i] = x

\* Polynomials of degree < n with coefficients in 0..MaxCoeff.
Polys(n) == [1 .. n -> 0 .. MaxCoeff]

RECURSIVE SumTo(_, _)
\* f[1] + ... + f[n] in the field
SumTo(f, n) ==
    IF n = 0 THEN zero ELSE add(f[n], SumTo(f, n - 1))

\* C5: evaluate_vanishing_polynomial(x) equals the sparse polynomial
\* vanishing_polynomial() evaluated at x, and it is zero exactly for the x
\* that elements() yields.
C5_VanishingPolynomial ==
    (domain.kind = "Some" /\ vanishing.kind = "Some") =>
        /\ vanishing_poly.kind = "Some" =>
               vanishing.val = sparse_evaluate(vanishing_poly.val, tau)
        /\ (vanishing.val = zero) <=> InElements(domain.val, tau)

C5_Witness ==
    /\ domain.kind = "Some" /\ domain.val.size = 4
    /\ vanishing.kind = "Some" /\ vanishing_poly.kind = "Some"
    /\ vanishing.val = zero /\ tau # one

\* C6: for every polynomial p of degree < size and every tau, in the domain
\* or not, the sum over i of L[i] * p(w^i) equals p(tau), L being
\* evaluate_all_lagrange_coefficients(tau) and w being group_gen.
C6_LagrangeInterpolation ==
    (domain.kind = "Some" /\ lagrange.kind = "Some") =>
        LET D == domain.val
            L == lagrange.val
        IN  /\ Len(L) = D.size
            /\ \A p \in Polys(D.size) :
                   SumTo([i \in 1 .. D.size |->
                             mul(L[i], evaluate(p, pow(D.group_gen, i - 1)))],
                         D.size)
                   = evaluate(p, tau)

C6_Witness ==
    /\ domain.kind = "Some" /\ domain.val.size = 4
    /\ lagrange.kind = "Some"
    /\ pow(tau, 4) # one /\ tau # zero

\* C7: when tau^size = 1, evaluate_all_lagrange_coefficients(tau) has length
\* size, holds 1 at the one index i with w^i = tau, and 0 everywhere else.
C7_LagrangeIndicator ==
    (domain.kind = "Some" /\ lagrange.kind = "Some"
     /\ pow(tau, domain.val.size) = one) =>
        LET D == domain.val
            L == lagrange.val
        IN  /\ Len(L) = D.size
            /\ \E i \in 0 .. (D.size - 1) :
                   /\ pow(D.group_gen, i) = tau
                   /\ \A j \in 0 .. (D.size - 1) :
                          L[j + 1] = IF j = i THEN one ELSE zero

C7_Witness ==
    /\ domain.kind = "Some" /\ domain.val.size = 4
    /\ lagrange.kind = "Some"
    /\ tau = pow(domain.val.group_gen, 3)
    /\ lagrange.val = <<zero, zero, zero, one>>

\* The smallest power of two >= n, as a number (no width).
SmallestPowerOfTwo(n) == smallest_power_of_two_from(n, 1)

\* C8: new(num_coeffs) returns a domain of the smallest power of two >=
\* num_coeffs, and returns None, never panicking, exactly when log2 of that
\* size exceeds TWO_ADICITY; compute_size_of_domain returns Some(s) in exactly
\* the cases where new returns a domain, s being that domain's size.
C8_NewAndComputeSize ==
    LET s == SmallestPowerOfTwo(num_coeffs)
        fits == k_adicity(2, s) <= TWO_ADICITY
    IN  /\ domain # Unset =>
               IF fits THEN domain.kind = "Some" /\ domain.val.size = s
               ELSE domain = None
        /\ domain_size # Unset =>
               IF fits THEN domain_size = Some(s) ELSE domain_size = None

C10_IteratorState ==
    iter.kind = "Some" =>
        LET it == iter.val
            D == it.domain
        IN  /\ it.cur_pow <= D.size
            /\ it.cur_elem = pow(D.group_gen, it.cur_pow)
            /\ Len(yielded) = it.cur_pow
            /\ \A i \in 1 .. Len(yielded) : yielded[i] = pow(D.group_gen, i - 1)
            /\ it.cur_pow = (IF calls <= D.size THEN calls ELSE D.size)
            /\ (item.kind = "None") <=> (calls > D.size)
            /\ (item.kind = "Some") => item.val = yielded[Len(yielded)]

\* C10, in every step: a next() after next() has returned None returns None
\* again and changes nothing; a fresh elements() starts at group_gen^0.
C10_IteratorStep ==
    /\ (iter.kind = "Some" /\ item.kind = "None" /\ calls' = calls + 1) =>
           (item' = None /\ iter' = iter /\ yielded' = yielded)
    /\ (calls' = 0 /\ iter'.kind = "Some") =>
           (iter'.val.cur_pow = 0 /\ iter'.val.cur_elem = one)

\* C10: elements() yields exactly size items, the i-th being group_gen^i;
\* once next() has returned None it does so on every later call.
C10_Elements ==
    [](C10_IteratorState) /\ [][C10_IteratorStep]_vars

C10_Witness ==
    /\ iter.kind = "Some" /\ iter.val.domain.size = 4
    /\ item.kind = "None" /\ calls = 4 + MaxExtraNext
    /\ Len(yielded) = 4

----------------------------------------------------------------------------
(* Specification of the transforms: a constructed domain, a coefficient
   vector, and fft / ifft / coset_fft / coset_ifft applied to it *)

\* The longest input vector: one more than the largest domain.
MaxLen == Pow2(TWO_ADICITY) + 1

\* Vectors of at most n coefficients in 0..MaxCoeff.
Vectors(n) == UNION {[1 .. l -> 0 .. MaxCoeff] : l \in 0 .. n}

domQueriesIdle ==
    /\ tau = zero /\ domain_size = Unset
    /\ vanishing = Unset /\ vanishing_poly = Unset /\ lagrange = Unset
    /\ iter = Unset /\ item = Unset /\ yielded = <<>> /\ calls = 0

InitFft ==
    /\ build = "release"
    /\ num_coeffs \in 0 .. USIZE_MAX
    /\ domain = new(num_coeffs, build)
    /\ domain.kind = "Some"
    /\ num_coeffs = domain.val.size
    /\ domQueriesIdle
    /\ coeffs \in Vectors(MaxLen)
    /\ parallel \in BOOLEAN
    /\ num_threads \in 1 .. MaxThreads
    /\ evals = Unset /\ restored = Unset
    /\ coset_evals = Unset /\ coset_restored = Unset
    /\ parIdle /\ bhpIdle
    /\ quotIdle /\ idxIdle /\ failIdle

\* evals = domain.fft(&coeffs)
Fft ==
    /\ evals = Unset /\ coset_evals = Unset
    /\ evals' = fft(domain.val, coeffs, parallel, num_threads)
    /\ UNCHANGED <<bhpVars, onceVars, domVars, coeffs, restored, coset_evals, coset_restored,
                   parallel, num_threads, parVars,
                   extVars>>

\* restored = domain.ifft(&evals)
Ifft ==
    /\ evals.kind = "Some" /\ restored = Unset
    /\ restored' = ifft(domain.val, evals.val, parallel, num_threads)
    /\ UNCHANGED <<bhpVars, onceVars, domVars, coeffs, evals, coset_evals, coset_restored,
                   parallel, num_threads, parVars,
                   extVars>>

\* coset_evals = domain.coset_fft(&coeffs)
CosetFft ==
    /\ evals = Unset /\ coset_evals = Unset
    /\ coset_evals' = coset_fft(domain.val, coeffs, parallel, num_threads)
    /\ UNCHANGED <<bhpVars, onceVars, domVars, coeffs, evals, restored, coset_restored,
                   parallel, num_threads, parVars,
                   extVars>>

\* coset_restored = domain.coset_ifft(&coset_evals)
CosetIfft ==
    /\ coset_evals.kind = "Some" /\ coset_restored = Unset
    /\ coset_restored' = coset_ifft(domain.val, coset_evals.val, parallel,
                                    num_threads)
    /\ UNCHANGED <<bhpVars, onceVars, domVars, coeffs, evals, restored, coset_evals,
                   parallel, num_threads, parVars,
                   extVars>>

\* domain.ifft_in_place(&mut coeffs) on the coefficient vector itself
IfftInPlace ==
    /\ inverted = Unset
    /\ inverted' = ifft_in_place(domain.val, coeffs, parallel, num_threads)
    /\ UNCHANGED <<bhpVars, onceVars, domVars, fftVars, parVars,
                   quotient, roots, powers, reindexed, failed>>

\* domain.divide_by_vanishing_poly_on_coset_in_place(&mut coeffs)
DivideByVanishingPolyOnCoset ==
    /\ quotient = Unset
    /\ quotient' = divide_by_vanishing_poly_on_coset_in_place(domain.val, coeffs)
    /\ UNCHANGED <<bhpVars, onceVars, domVars, fftVars, parVars,
                   inverted, roots, powers, reindexed, failed>>

NextFft ==
    \/ Fft
    \/ Ifft
    \/ CosetFft
    \/ CosetIfft
    \/ IfftInPlace
    \/ DivideByVanishingPolyOnCoset

SpecFft == InitFft /\ [][NextFft]_vars

----------------------------------------------------------------------------
(* Specification of parallel_radix2_fft: the chunks' closures run as tasks
   of the thread pool, each in two steps, in any interleaving; the
   reassembly runs after all of them *)

\* The elements of order exactly n.
PrimitiveRoots(n) ==
    {x \in Field : /\ x # zero
                   /\ pow(x, n) = one
                   /\ \A k \in 1 .. (n - 1) : pow(x, k) # one}

InitParallel ==
    /\ par_pc = "start"
    /\ log_n \in 0 .. TWO_ADICITY
    /\ log_cpus \in 0 .. TWO_ADICITY
    /\ omega \in PrimitiveRoots(Pow2(log_n))
    /\ a \in [1 .. Pow2(log_n) -> 0 .. MaxCoeff]
    /\ a_in = a
    /\ tmp = <<>> /\ task_pc = <<>>
    /\ num_coeffs = 0 /\ build = "release" /\ domain = Unset
    /\ domQueriesIdle /\ fftIdle /\ bhpIdle
    /\ quotIdle /\ idxIdle /\ failIdle

\* The asserts, num_chunks, and the allocation of tmp.
ParStart ==
    /\ par_pc = "start"
    /\ LET m == Len(a)
           num_chunks == Pow2(log_cpus)
       IN  IF log_n < log_cpus \/ m % num_chunks # 0
           THEN /\ par_pc' = "panicked"
                /\ UNCHANGED <<tmp, task_pc>>
           ELSE /\ par_pc' = "tasks"
                /\ tmp' = zeroed_tmp(m, num_chunks)
                /\ task_pc' = [j \in 1 .. num_chunks |-> "todo"]
    /\ UNCHANGED <<bhpVars, onceVars, domVars, fftVars, a, a_in, omega, log_n, log_cpus,
                   extVars>>

\* Chunk j (from 1): shuffle into a sub-FFT.
TaskShuffle(j) ==
    /\ par_pc = "tasks" /\ task_pc[j] = "todo"
    /\ tmp' = [tmp EXCEPT ![j] = shuffle(a, tmp[j], omega, j - 1, Len(tmp))]
    /\ task_pc' = [task_pc EXCEPT ![j] = "shuffled"]
    /\ UNCHANGED <<bhpVars, onceVars, domVars, fftVars, par_pc, a, a_in, omega, log_n, log_cpus,
                   extVars>>

\* Chunk j (from 1): perform sub-FFT.
TaskSubFft(j) ==
    /\ par_pc = "tasks" /\ task_pc[j] = "shuffled"
    /\ LET r == sub_fft(tmp[j], omega, Len(tmp))
       IN  IF r.kind = "Some"
           THEN /\ tmp' = [tmp EXCEPT ![j] = r.val]
                /\ task_pc' = [task_pc EXCEPT ![j] = "done"]
                /\ par_pc' = par_pc
           ELSE /\ par_pc' = "panicked"
                /\ UNCHANGED <<tmp, task_pc>>
    /\ UNCHANGED <<bhpVars, onceVars, domVars, fftVars, a, a_in, omega, log_n, log_cpus,
                   extVars>>

\* for_each has returned: every chunk is done; a is rewritten from tmp.
Reassemble ==
    /\ par_pc = "tasks"
    /\ \A j \in DOMAIN task_pc : task_pc[j] = "done"
    /\ a' = reassemble(tmp, Len(a), Len(tmp))
    /\ par_pc' = "done"
    /\ UNCHANGED <<bhpVars, onceVars, domVars, fftVars, a_in, omega, log_n, log_cpus, tmp, task_pc,
                   extVars>>

NextParallel ==
    \/ ParStart
    \/ \E j \in DOMAIN task_pc : TaskShuffle(j)
    \/ \E j \in DOMAIN task_pc : TaskSubFft(j)
    \/ Reassemble

SpecParallel == InitParallel /\ [][NextParallel]_vars

----------------------------------------------------------------------------
(* Claims about the transforms, checked under SpecFft and SpecParallel *)

\* The i-th item (from 0) of D.elements().
ElementAt(D, i) == collect(elements(D))[i + 1]

\* C1: for a coefficient vector no longer than the domain, ifft(fft(v)) and
\* coset_ifft(coset_fft(v)) both equal v zero-padded to size.
C1_InverseLaw ==
    (domain.kind = "Some" /\ Len(coeffs) <= domain.val.size) =>
        LET padded == resize(coeffs, domain.val.size)
        IN  /\ restored # Unset => restored = Some(padded)
            /\ coset_restored # Unset => coset_restored = Some(padded)

C1_Witness ==
    /\ domain.kind = "Some" /\ domain.val.size = 4 /\ Len(coeffs) = 3
    /\ coeffs[3] # zero /\ coeffs[2] # zero
    /\ coset_restored.kind = "Some" /\ evals = Unset
    /\ coset_evals.val # coset_restored.val

\* C2: for a coefficient vector no longer than the domain, fft(v)[i] is the
\* polynomial with coefficients v evaluated at group_gen^i, for every i < size.
C2_FftIsDft ==
    (domain.kind = "Some" /\ Len(coeffs) <= domain.val.size /\ evals # Unset) =>
        /\ evals.kind = "Some"
        /\ Len(evals.val) = domain.val.size
        /\ \A i \in 0 .. (domain.val.size - 1) :
               evals.val[i + 1] = evaluate(coeffs, pow(domain.val.group_gen, i))

C2_Witness ==
    /\ domain.kind = "Some" /\ domain.val.size = 4 /\ Len(coeffs) = 4
    /\ evals.kind = "Some" /\ ~parallel
    /\ \A i \in 1 .. 4 : coeffs[i] # zero
    /\ evals.val[2] # evals.val[3]

\* C3: for a coefficient vector no longer than the domain, coset_fft(v)[i] is
\* the polynomial v evaluated at g * w^i, g the field's multiplicative
\* generator and w^i the i-th item of elements(), for every i < size.
C3_CosetFftIsDft ==
    (domain.kind = "Some" /\ Len(coeffs) <= domain.val.size
     /\ coset_evals # Unset) =>
        /\ coset_evals.kind = "Some"
        /\ Len(coset_evals.val) = domain.val.size
        /\ \A i \in 0 .. (domain.val.size - 1) :
               coset_evals.val[i + 1] =
                   evaluate(coeffs, mul(multiplicative_generator,
                                        ElementAt(domain.val, i)))

C3_Witness ==
    /\ domain.kind = "Some" /\ domain.val.size = 4 /\ Len(coeffs) = 2
    /\ coeffs[2] # zero
    /\ coset_evals.kind = "Some"
    /\ coset_evals.val # fft(domain.val, coeffs, parallel, num_threads).val

\* C4: with log_cpus <= log_n, parallel_radix2_fft does not panic and leaves
\* a equal, element for element, to what serial_radix2_fft makes of the same
\* input, in whatever order the chunks' tasks ran.
C4_ParallelEqualsSerial ==
    log_cpus <= log_n =>
        /\ par_pc # "panicked"
        /\ par_pc = "done" => Some(a) = serial_radix2_fft(a_in, omega, log_n)

C4_Witness ==
    /\ par_pc = "done" /\ log_n = 2 /\ log_cpus = 1
    /\ a_in[2] # zero /\ a_in[4] # zero
    /\ a # a_in

----------------------------------------------------------------------------
(* The Bowe-Hopwood-Pedersen CRH (algorithms/src/crh/bhp.rs)               *)
(*                                                                         *)
(* The group G is modelled as the additive group of integers modulo its    *)
(* prime order, the modulus of G::ScalarField.  The source's scalar field  *)
(* has a 251-bit modulus held in a 256-bit BigInteger; the model keeps the *)
(* five spare bits: a 7-bit modulus in 12 bits.                            *)

ScalarModulus == 67
BigIntegerBits == 12

\* Instances that are cloned, rebuilt or serialized hash at most this many bits.
MaxSharedInputLen == 3
\* NUM_WINDOWS ranges over 1..MaxNumWindows.
MaxNumWindows == 2
\* WINDOW_SIZE ranges over 1..MaxWindowSize.
MaxWindowSize == 3
\* hash_bits is handed at most MaxInputLen bits.
MaxInputLen == 7

MAX_WINDOW_SIZE == 256
MAX_NUM_WINDOWS == 2048
BOWE_HOPWOOD_CHUNK_SIZE == 3
BOWE_HOPWOOD_LOOKUP_SIZE == 8

G == 0 .. (ScalarModulus - 1)
G_zero == 0
G_add(x, y) == (x + y) % ScalarModulus
G_neg(x) == (ScalarModulus - x) % ScalarModulus
G_double(x) == G_add(x, x)

\* k * x for an integer k of either sign
G_mul(k, x) == (((k % ScalarModulus) + ScalarModulus) * x) % ScalarModulus

Messages == {"a", "b"}

\* format!("{} at {}", message, index): the pair of its two arguments
indexed_message(msg, index) == <<msg, index>>

\* hash_to_curve: a fixed map from indexed messages to non-zero elements
hash_to_curve(m) ==
    LET code == IF m[1] = "a" THEN 3 ELSE 7
    IN  1 + ((code + 5 * m[2] + code * m[2] * m[2]) % (ScalarModulus - 1))

modulus_minus_one_div_two == (ScalarModulus - 1) \div 2

\* BigInteger::muln: a left shift by n bits within the integer's width
muln(x, n) == (x * Pow2(n)) % Pow2(BigIntegerBits)

RECURSIVE num_chunks_loop(_, _, _)
num_chunks_loop(range, upper_limit, c) ==
    IF range < upper_limit
    THEN num_chunks_loop(muln(range, 4), upper_limit, c + 1)
    ELSE c

\* The maximum number of chunks per segment that setup computes.
calculate_num_chunks_in_segment ==
    num_chunks_loop(2, modulus_minus_one_div_two, 0)

RECURSIVE double_in_place_times(_, _)
double_in_place_times(base, n) ==
    IF n = 0 THEN base ELSE double_in_place_times(G_double(base), n - 1)

\* A variant that doubles before it appends.
RECURSIVE window_generators_doubled_first(_, _)
window_generators_doubled_first(base, n) ==
    IF n = 0 THEN <<>>
    ELSE <<double_in_place_times(base, 4)>>
         \o window_generators_doubled_first(double_in_place_times(base, 4), n - 1)

\* The inner loop of create_generators: append, then double four times.
RECURSIVE window_generators(_, _)
window_generators(base, n) ==
    IF n = 0 THEN <<>>
    ELSE <<base>> \o window_generators(double_in_place_times(base, 4), n - 1)

create_generators(msg) ==
    [index \in 1 .. NUM_WINDOWS |->
        window_generators(hash_to_curve(indexed_message(msg, index - 1)),
                          WINDOW_SIZE)]

\* An instance with an empty OnceCell
from(bases) == [bases |-> bases, base_lookup |-> None]

setup(msg) ==
    IF WINDOW_SIZE > calculate_num_chunks_in_segment
    THEN Panic
    ELSE Some(from(create_generators(msg)))

\* A variant that never negates.
lookup_entry_unsigned(g, i) ==
    LET e1 == IF i % 2 = 1 THEN G_add(g, g) ELSE g
    IN  IF (i \div 2) % 2 = 1 THEN G_add(e1, G_double(g)) ELSE e1

\* Entry i of the lookup table of generator g
lookup_entry(g, i) ==
    LET e1 == IF i % 2 = 1 THEN G_add(g, g) ELSE g
        e2 == IF (i \div 2) % 2 = 1 THEN G_add(e1, G_double(g)) ELSE e1
    IN  IF (i \div 4) % 2 = 1 THEN G_neg(e2) ELSE e2

\* The closure of base_lookup: one table per generator, in the bases' order
lookup_table(bases) ==
    [w \in DOMAIN bases |->
        [j \in DOMAIN bases[w] |->
            [i \in 0 .. (BOWE_HOPWOOD_LOOKUP_SIZE - 1) |->
                lookup_entry(bases[w][j], i)]]]

\* self.base_lookup(bases), called alone: the instance after
\* get_or_try_init; the table it returns is the cell's value.
base_lookup(self, bases) ==
    [self EXCEPT !.base_lookup =
        IF @.kind = "Some" THEN @ ELSE Some(lookup_table(bases))]

Ok(x) == [kind |-> "Ok", val |-> x]
Err(e) == [kind |-> "Err", val |-> e]

\* CRHError::IncorrectInputLength(num_bits, WINDOW_SIZE, NUM_WINDOWS)
IncorrectInputLength(num_bits, window_size, num_windows) ==
    [error |-> "IncorrectInputLength", num_bits |-> num_bits,
     window_size |-> window_size, num_windows |-> num_windows]

min(x, y) == IF x < y THEN x ELSE y

\* slice.chunks(n): consecutive pieces of n items, the last one shorter
chunks(s, n) ==
    [k \in 1 .. ((Len(s) + n - 1) \div n) |->
        SubSeq(s, (k - 1) * n + 1, min(k * n, Len(s)))]

\* A variant that rounds down to a multiple of the chunk size.
bit_len_rounded_down ==
    LET b == WINDOW_SIZE * NUM_WINDOWS
    IN  b - (b % BOWE_HOPWOOD_CHUNK_SIZE)

\* WINDOW_SIZE * NUM_WINDOWS, padded to a multiple of the chunk size
bit_len ==
    LET b == WINDOW_SIZE * NUM_WINDOWS
    IN  IF b % BOWE_HOPWOOD_CHUNK_SIZE # 0
        THEN b + (BOWE_HOPWOOD_CHUNK_SIZE - (b % BOWE_HOPWOOD_CHUNK_SIZE))
        ELSE b

\* A buffer that marks the end of the input with a true bit.
buf_slice_marked(inp) ==
    [p \in 1 .. bit_len |-> IF p <= Len(inp) THEN inp[p] ELSE p = Len(inp) + 1]

\* buf_slice[..bit_len]: the input bits followed by false
buf_slice(inp) == [p \in 1 .. bit_len |-> IF p <= Len(inp) THEN inp[p] ELSE FALSE]

\* A variant that reads the three bits as a big-endian number.
chunk_index_reversed(chunk_bits) ==
    (IF chunk_bits[3] THEN 1 ELSE 0) + 2 * (IF chunk_bits[2] THEN 1 ELSE 0)
        + 4 * (IF chunk_bits[1] THEN 1 ELSE 0)

\* chunk_bits[0] | chunk_bits[1] << 1 | chunk_bits[2] << 2
chunk_index(chunk_bits) ==
    (IF chunk_bits[1] THEN 1 ELSE 0) + 2 * (IF chunk_bits[2] THEN 1 ELSE 0)
        + 4 * (IF chunk_bits[3] THEN 1 ELSE 0)

\* buf_slice[..bit_len].chunks(WINDOW_SIZE * BOWE_HOPWOOD_CHUNK_SIZE)
segments(buf) == chunks(buf, WINDOW_SIZE * BOWE_HOPWOOD_CHUNK_SIZE)

\* The table entries the two nested zip / map pick, per segment and chunk,
\* each with the buffer positions (from 1) it was picked by.
hash_terms(buf, table) ==
    LET segment_bits == segments(buf)
        segment_positions == segments([p \in 1 .. Len(buf) |-> p])
    IN  [s \in 1 .. min(Len(segment_bits), Len(table)) |->
            LET chunk_bits == chunks(segment_bits[s], BOWE_HOPWOOD_CHUNK_SIZE)
                chunk_positions ==
                    chunks(segment_positions[s], BOWE_HOPWOOD_CHUNK_SIZE)
            IN  [k \in 1 .. min(Len(chunk_bits), Len(table[s])) |->
                    [window |-> s, generator |-> k,
                     reads |-> chunk_positions[k],
                     index |-> chunk_index(chunk_bits[k]),
                     entry |-> table[s][k][chunk_index(chunk_bits[k])]]]]

\* .fold(G::zero(), |a, b| a + b) over the entries of one segment
RECURSIVE fold_entries(_, _)
fold_entries(acc, ts) ==
    IF ts = <<>> THEN acc
    ELSE fold_entries(G_add(acc, Head(ts).entry), Tail(ts))

\* .fold(G::zero(), |a, b| a + b) over the segments
RECURSIVE fold_segments(_, _)
fold_segments(acc, segs) ==
    IF segs = <<>> THEN acc
    ELSE fold_segments(G_add(acc, fold_entries(G_zero, Head(segs))), Tail(segs))

\* The dimensions the debug assertions compare with the const generics
has_dimensions(rows) ==
    /\ Len(rows) = NUM_WINDOWS
    /\ \A w \in DOMAIN rows : Len(rows[w]) = WINDOW_SIZE

\* A variant that compares the length with the capacity in chunks' bits.
input_too_long_in_chunks(num_bits) ==
    num_bits > WINDOW_SIZE * NUM_WINDOWS * BOWE_HOPWOOD_CHUNK_SIZE

\* The length check of hash_bits_inner
input_too_long(num_bits) == num_bits > WINDOW_SIZE * NUM_WINDOWS

\* A variant that builds the lookup table before it checks the length.
hash_bits_inner_table_first(self, inp, b) ==
    LET num_bits == Len(inp)
        cached == base_lookup(self, self.bases)
        table == cached.base_lookup.val
        ts == hash_terms(buf_slice(inp), table)
    IN  IF input_too_long(num_bits)
        THEN [ret |-> Err(IncorrectInputLength(num_bits, WINDOW_SIZE, NUM_WINDOWS)),
              self |-> cached, terms |-> <<>>]
        ELSE IF b = "debug" /\ ~has_dimensions(self.bases)
        THEN [ret |-> Panic, self |-> self, terms |-> <<>>]
        ELSE IF b = "debug" /\ ~has_dimensions(table)
        THEN [ret |-> Panic, self |-> cached, terms |-> <<>>]
        ELSE [ret |-> Ok(fold_segments(G_zero, ts)), self |-> cached, terms |-> ts]

\* self.hash_bits_inner(input.iter(), input.len()) in build b: what it
\* returns, the instance after the call, and the table entries it added.
hash_bits_inner(self, inp, b) ==
    LET num_bits == Len(inp)
        cached == base_lookup(self, self.bases)
        table == cached.base_lookup.val
        ts == hash_terms(buf_slice(inp), table)
    IN  IF input_too_long(num_bits)
        THEN [ret |-> Err(IncorrectInputLength(num_bits, WINDOW_SIZE, NUM_WINDOWS)),
              self |-> self, terms |-> <<>>]
        ELSE IF b = "debug" /\ (\/ WINDOW_SIZE > MAX_WINDOW_SIZE
                                \/ NUM_WINDOWS > MAX_NUM_WINDOWS
                                \/ ~has_dimensions(self.bases))
        THEN [ret |-> Panic, self |-> self, terms |-> <<>>]
        ELSE IF b = "debug" /\ ~has_dimensions(table)
        THEN [ret |-> Panic, self |-> cached, terms |-> <<>>]
        ELSE [ret |-> Ok(fold_segments(G_zero, ts)), self |-> cached, terms |-> ts]

\* G has prime order: every element is in the correct subgroup.
is_in_correct_subgroup_assuming_on_curve(p) == p \in G

\* into_affine: one representative per element
into_affine(p) == p % ScalarModulus

\* Within the prime-order subgroup the x-coordinate determines the point.
to_x_coordinate(p) == [x |-> p]

\* self.hash_bits(input) in build b
hash_bits(self, inp, b) ==
    LET r == hash_bits_inner(self, inp, b)
    IN  IF r.ret.kind # "Ok" THEN r
        ELSE IF b = "debug"
                /\ ~is_in_correct_subgroup_assuming_on_curve(into_affine(r.ret.val))
        THEN [r EXCEPT !.ret = Panic]
        ELSE [r EXCEPT !.ret = Ok(to_x_coordinate(into_affine(r.ret.val)))]

(* Specification of hashing: the const generics, a message and an input
   are chosen, setup(message) builds the instance, hash_bits(input) runs *)

\* Bit strings of at most n bits
Inputs(n) == UNION {[1 .. l -> BOOLEAN] : l \in 0 .. n}

domIdle == num_coeffs = 0 /\ domain = Unset /\ domQueriesIdle

InitHash ==
    /\ NUM_WINDOWS \in 1 .. MaxNumWindows
    /\ WINDOW_SIZE \in 1 .. MaxWindowSize
    /\ message \in Messages
    /\ input \in Inputs(MaxInputLen)
    /\ build \in {"debug", "release"}
    /\ crh = Unset /\ hashed = Unset /\ terms = <<>>
    /\ other = Unset /\ other_hashed = Unset /\ bytes = Unset
    /\ onceIdle /\ domIdle /\ fftIdle /\ parIdle
    /\ quotIdle /\ idxIdle /\ failIdle

\* crh = BHPCRH::setup(message)
Setup ==
    /\ crh = Unset /\ message # ""
    /\ crh' = setup(message)
    /\ UNCHANGED <<NUM_WINDOWS, WINDOW_SIZE, message, input, hashed, terms,
                   other, other_hashed, bytes, onceVars, domVars, fftVars, parVars,
                   extVars>>

\* hashed = crh.hash_bits(&input)
HashBits ==
    /\ crh.kind = "Some" /\ hashed = Unset
    /\ LET r == hash_bits(crh.val, input, build)
       IN  /\ hashed' = r.ret
           /\ crh' = Some(r.self)
           /\ terms' = r.terms
    /\ UNCHANGED <<NUM_WINDOWS, WINDOW_SIZE, message, input,
                   other, other_hashed, bytes, onceVars, domVars, fftVars, parVars,
                   extVars>>

NextHash ==
    \/ Setup
    \/ HashBits

SpecHash == InitHash /\ [][NextHash]_vars

----------------------------------------------------------------------------
(* Claims about setup, the lookup table and hash_bits, checked under
   SpecHash *)

\* C11: hash_bits(input) returns Err(IncorrectInputLength(len, WINDOW_SIZE,
\* NUM_WINDOWS)) carrying the actual length exactly when the input has more
\* than WINDOW_SIZE * NUM_WINDOWS bits, and Ok otherwise.
C11_IncorrectInputLength ==
    hashed # Unset =>
        IF Len(input) > WINDOW_SIZE * NUM_WINDOWS
        THEN hashed = Err(IncorrectInputLength(Len(input), WINDOW_SIZE, NUM_WINDOWS))
        ELSE hashed.kind = "Ok"

C11_Witness ==
    /\ hashed.kind = "Err"
    /\ Len(input) = WINDOW_SIZE * NUM_WINDOWS + 1
    /\ Len(input) <= WINDOW_SIZE * NUM_WINDOWS * BOWE_HOPWOOD_CHUNK_SIZE

\* The terms of the last hash_bits, window after window
AllTerms == UNION {{terms[s][k] : k \in DOMAIN terms[s]} : s \in DOMAIN terms}

\* The set of the items of a sequence
Range(s) == {s[k] : k \in DOMAIN s}

\* The sum of entry(t) over a finite set of terms
RECURSIVE SumEntries(_)
SumEntries(ts) ==
    IF ts = {} THEN G_zero
    ELSE LET t == CHOOSE x \in ts : TRUE
         IN  G_add(t.entry, SumEntries(ts \ {t}))

\* Bit p (from 1) of the input padded with false
PaddedBit(p) == IF p <= Len(input) THEN input[p] ELSE FALSE

\* C12: an input of more than WINDOW_SIZE * NUM_WINDOWS * 3 bits is refused
\* with the error, and whenever hash_bits returns Ok every input position is
\* read by exactly one 3-bit chunk of exactly one window, whose table entry
\* (the one the chunk's bits select) is added into the result.
C12_NoInputBitDropped ==
    hashed # Unset =>
        /\ Len(input) > WINDOW_SIZE * NUM_WINDOWS * BOWE_HOPWOOD_CHUNK_SIZE
               => hashed.kind = "Err"
        /\ hashed.kind = "Ok" =>
               /\ \A p \in 1 .. Len(input) :
                      Cardinality({t \in AllTerms : p \in Range(t.reads)}) = 1
               /\ \A t \in AllTerms :
                      /\ Len(t.reads) = BOWE_HOPWOOD_CHUNK_SIZE
                      /\ t.entry = lookup_entry(
                             crh.val.bases[t.window][t.generator],
                             chunk_index([i \in 1 .. 3 |-> PaddedBit(t.reads[i])]))
               /\ hashed.val = to_x_coordinate(SumEntries(AllTerms))

C12_Witness ==
    /\ hashed.kind = "Ok"
    /\ NUM_WINDOWS = 2 /\ WINDOW_SIZE = 2
    /\ Len(input) = 4 /\ input[4] /\ input[1]

\* The eight multiples the Bowe-Hopwood encoding assigns to the indices 0..7
SignedMultiples == <<1, 2, 3, 4, -1, -2, -3, -4>>

\* C17: the table built by base_lookup holds, for every generator g and
\* every index v = b0 + 2*b1 + 4*b2, the element
\* (1 - 2*b2) * (1 + b0 + 2*b1) * g, that is g, 2g, 3g, 4g, -g, -2g, -3g,
\* -4g for v = 0..7, one 8-entry array per generator in the window and
\* position order of the bases.
C17_LookupTable ==
    (crh.kind = "Some" /\ crh.val.base_lookup.kind = "Some") =>
        LET bases == crh.val.bases
            table == crh.val.base_lookup.val
        IN  /\ DOMAIN table = DOMAIN bases
            /\ \A w \in DOMAIN bases :
                   /\ DOMAIN table[w] = DOMAIN bases[w]
                   /\ \A j \in DOMAIN bases[w] :
                          /\ DOMAIN table[w][j] = 0 .. 7
                          /\ \A b0, b1, b2 \in {0, 1} :
                                 table[w][j][b0 + 2 * b1 + 4 * b2] =
                                     G_mul((1 - 2 * b2) * (1 + b0 + 2 * b1),
                                           bases[w][j])
                          /\ \A v \in 0 .. 7 :
                                 table[w][j][v] =
                                     G_mul(SignedMultiples[v + 1], bases[w][j])

C17_Witness ==
    /\ crh.kind = "Some" /\ crh.val.base_lookup.kind = "Some"
    /\ NUM_WINDOWS = 2 /\ WINDOW_SIZE = 2
    /\ crh.val.base_lookup.val[2][2][7] = G_neg(G_mul(4, crh.val.bases[2][2]))
    /\ crh.val.base_lookup.val[2][2][7] # G_mul(4, crh.val.bases[2][2])

\* C18: hash_bits_inner cuts the padded buffer into exactly NUM_WINDOWS
\* segments of WINDOW_SIZE * 3 bits and each segment into exactly
\* WINDOW_SIZE chunks of 3 bits, so that each of the NUM_WINDOWS windows and
\* each of its WINDOW_SIZE lookup tables contributes exactly one term.
C18_SegmentsAndChunks ==
    hashed.kind = "Ok" =>
        /\ Len(segments(buf_slice(input))) = NUM_WINDOWS
        /\ \A s \in DOMAIN segments(buf_slice(input)) :
               Len(segments(buf_slice(input))[s])
                   = WINDOW_SIZE * BOWE_HOPWOOD_CHUNK_SIZE
        /\ \A w \in 1 .. NUM_WINDOWS : \A j \in 1 .. WINDOW_SIZE :
               Cardinality({t \in AllTerms : t.window = w /\ t.generator = j}) = 1

\* The number of times 2 must be multiplied by 16 to reach (r - 1) / 2
TimesSixteen ==
    CHOOSE c \in 0 .. BigIntegerBits :
        /\ 2 * Pow2(4 * c) >= (ScalarModulus - 1) \div 2
        /\ \A d \in 0 .. (c - 1) : 2 * Pow2(4 * d) < (ScalarModulus - 1) \div 2

\* The coefficients a 3-bit chunk encodes
ChunkCoefficients == {-4, -3, -2, -1, 1, 2, 3, 4}

\* sum over j < n of c[j] * 2^(4*j)
RECURSIVE WindowScalar(_, _)
WindowScalar(c, n) ==
    IF n = 0 THEN 0 ELSE WindowScalar(c, n - 1) + c[n - 1] * Pow2(4 * (n - 1))

Abs(x) == IF x < 0 THEN 0 - x ELSE x

\* C19: setup panics exactly when WINDOW_SIZE exceeds the number c of times
\* 2 must be multiplied by 16 to reach at least (r - 1) / 2, and whenever
\* setup returns the bound is sound: every per-window scalar
\* sum_{j < WINDOW_SIZE} c_j * 2^(4j) with c_j in {-4..-1, 1..4} has an
\* absolute value of at most (r - 1) / 2.
C19_WindowSizeBound ==
    crh # Unset =>
        /\ crh = Panic <=> WINDOW_SIZE > TimesSixteen
        /\ crh.kind = "Some" =>
               \A c \in [0 .. (WINDOW_SIZE - 1) -> ChunkCoefficients] :
                   Abs(WindowScalar(c, WINDOW_SIZE)) <= (ScalarModulus - 1) \div 2

\* C20: setup(message) produces exactly NUM_WINDOWS windows of exactly
\* WINDOW_SIZE generators; the first generator of window i is
\* hash_to_curve("{message} at {i}") and generator j of window i is
\* 2^(4j) times that first generator.
C20_Generators ==
    crh.kind = "Some" =>
        LET bases == crh.val.bases
        IN  /\ Len(bases) = NUM_WINDOWS
            /\ \A i \in 1 .. NUM_WINDOWS :
                   /\ Len(bases[i]) = WINDOW_SIZE
                   /\ bases[i][1] = hash_to_curve(indexed_message(message, i - 1))
                   /\ \A j \in 1 .. WINDOW_SIZE :
                          bases[i][j] = G_mul(Pow2(4 * (j - 1)), bases[i][1])

C20_Witness ==
    /\ crh.kind = "Some" /\ hashed = Unset
    /\ NUM_WINDOWS = 2 /\ WINDOW_SIZE = 2
    /\ crh.val.bases[2][2] = G_mul(16, hash_to_curve(indexed_message(message, 1)))
    /\ crh.val.bases[2][2] # crh.val.bases[1][2]

----------------------------------------------------------------------------
(* Serialization (ToBytes / FromBytes for BHPCRH) *)

\* (v as u32).write_le: the four low bytes of v, least significant first
u32_write_le(v) == [k \in 1 .. 4 |-> (v \div Pow2(8 * (k - 1))) % 256]

\* u32::read_le at position pos (from 1): the value and the next position,
\* or an error on a short read
u32_read_le(bs, pos) ==
    IF pos + 3 > Len(bs) THEN Err("UnexpectedEof")
    ELSE Ok([val |-> bs[pos] + 256 * bs[pos + 1] + 65536 * bs[pos + 2]
                     + 16777216 * bs[pos + 3],
             pos |-> pos + 4])

\* g.write_le: the element's two bytes, least significant first
G_write_le(g) == <<g % 256, g \div 256>>

\* G::read_le at position pos: a short read or an encoding that is no
\* element is an error
G_read_le(bs, pos) ==
    IF pos + 1 > Len(bs) THEN Err("UnexpectedEof")
    ELSE IF bs[pos] + 256 * bs[pos + 1] \notin G THEN Err("InvalidData")
    ELSE Ok([val |-> bs[pos] + 256 * bs[pos + 1], pos |-> pos + 2])

\* for g in base { g.write_le(&mut writer)? }
RECURSIVE write_base(_)
write_base(base) ==
    IF base = <<>> THEN <<>> ELSE G_write_le(Head(base)) \o write_base(Tail(base))

\* A variant that writes the windows without their lengths.
RECURSIVE write_bases_unframed(_)
write_bases_unframed(bases) ==
    IF bases = <<>> THEN <<>>
    ELSE write_base(Head(bases)) \o write_bases_unframed(Tail(bases))

\* for base in self.bases.iter() { ... }
RECURSIVE write_bases(_)
write_bases(bases) ==
    IF bases = <<>> THEN <<>>
    ELSE u32_write_le(Len(Head(bases))) \o write_base(Head(bases))
         \o write_bases(Tail(bases))

\* self.write_le(writer): the bytes written
write_le(self) == u32_write_le(Len(self.bases)) \o write_bases(self.bases)

\* for _ in 0..base_len { base.push(G::read_le(&mut reader)?) }
RECURSIVE read_base(_, _, _, _)
read_base(bs, pos, base_len, base) ==
    IF base_len = 0 THEN Ok([val |-> base, pos |-> pos])
    ELSE LET g == G_read_le(bs, pos)
         IN  IF g.kind = "Err" THEN g
             ELSE read_base(bs, g.val.pos, base_len - 1, Append(base, g.val.val))

\* for _ in 0..num_bases { ... bases.push(base) }
RECURSIVE read_bases(_, _, _, _)
read_bases(bs, pos, num_bases, bases) ==
    IF num_bases = 0 THEN Ok([val |-> bases, pos |-> pos])
    ELSE LET base_len == u32_read_le(bs, pos)
         IN  IF base_len.kind = "Err" THEN base_len
             ELSE LET base == read_base(bs, base_len.val.pos, base_len.val.val, <<>>)
                  IN  IF base.kind = "Err" THEN base
                      ELSE read_bases(bs, base.val.pos, num_bases - 1,
                                      Append(bases, base.val.val))

\* BHPCRH::read_le(reader): an instance with an empty OnceCell, or the error
read_le(bs) ==
    LET num_bases == u32_read_le(bs, 1)
    IN  IF num_bases.kind = "Err" THEN num_bases
        ELSE LET bases == read_bases(bs, num_bases.val.pos, num_bases.val.val, <<>>)
             IN  IF bases.kind = "Err" THEN bases
                 ELSE Ok(from(bases.val.val))

(* Specification of an instance's life: it is built by setup or from,
   hashes, is cloned, rebuilt from its bases, written and read back *)

\* #[derive(PartialEq, Eq)]: the bases are compared by value through the Arc,
\* the cells by their content (an empty cell equals an empty cell only).
eq(self, that) ==
    /\ self.bases = that.bases
    /\ self.base_lookup = that.base_lookup

\* A variant that leaves the bases behind.
clone_without_bases(self) == [bases |-> <<>>, base_lookup |-> self.base_lookup]

\* #[derive(Clone)]: the Arc of the bases and the OnceCell with its content
clone(self) == [bases |-> self.bases, base_lookup |-> self.base_lookup]

\* What callers hand to from(bases) and base_lookup(bases): the generators of
\* a message, or these with the last window missing, the last window one
\* generator short, or the first generator replaced by zero
BasesArguments ==
    UNION {{b,
            SubSeq(b, 1, Len(b) - 1),
            [b EXCEPT ![Len(b)] = Tail(@)],
            [b EXCEPT ![1][1] = G_zero]} : b \in {create_generators(m) : m \in Messages}}

InitLife ==
    /\ NUM_WINDOWS \in 1 .. MaxNumWindows
    /\ WINDOW_SIZE \in 1 .. MaxWindowSize
    /\ message \in Messages \cup {""}
    /\ input \in Inputs(MaxSharedInputLen)
    /\ build \in {"debug", "release"}
    /\ crh = Unset /\ hashed = Unset /\ terms = <<>>
    /\ other = Unset /\ other_hashed = Unset /\ bytes = Unset
    /\ onceIdle /\ domIdle /\ fftIdle /\ parIdle
    /\ quotIdle /\ idxIdle /\ failIdle

\* crh = BHPCRH::from(bases)
From(bases) ==
    /\ crh = Unset /\ message = ""
    /\ crh' = Some(from(bases))
    /\ UNCHANGED <<NUM_WINDOWS, WINDOW_SIZE, message, input, hashed, terms,
                   other, other_hashed, bytes, onceVars, domVars, fftVars, parVars,
                   extVars>>

\* crh.hash_bits(&input) once more
HashBitsAgain ==
    /\ crh.kind = "Some" /\ hashed # Unset
    /\ LET r == hash_bits(crh.val, input, build)
       IN  /\ hashed' = r.ret
           /\ crh' = Some(r.self)
           /\ terms' = r.terms
    /\ UNCHANGED <<NUM_WINDOWS, WINDOW_SIZE, message, input,
                   other, other_hashed, bytes, onceVars, domVars, fftVars, parVars,
                   extVars>>

\* other = crh.clone()
Clone ==
    /\ crh.kind = "Some" /\ other = Unset
    /\ other' = Some(clone(crh.val))
    /\ UNCHANGED <<NUM_WINDOWS, WINDOW_SIZE, message, input, crh, hashed, terms,
                   other_hashed, bytes, onceVars, domVars, fftVars, parVars,
                   extVars>>

\* other = BHPCRH::from(crh.parameters().clone())
Rebuild ==
    /\ crh.kind = "Some" /\ other = Unset
    /\ other' = Some(from(crh.val.bases))
    /\ UNCHANGED <<NUM_WINDOWS, WINDOW_SIZE, message, input, crh, hashed, terms,
                   other_hashed, bytes, onceVars, domVars, fftVars, parVars,
                   extVars>>

\* other = BHPCRH::setup(message), the message crh was set up with
SetupAgain ==
    /\ crh.kind = "Some" /\ other = Unset /\ message # ""
    /\ other' = setup(message)
    /\ UNCHANGED <<NUM_WINDOWS, WINDOW_SIZE, message, input, crh, hashed, terms,
                   other_hashed, bytes, onceVars, domVars, fftVars, parVars,
                   extVars>>

\* crh.write_le(&mut bytes)
WriteLe ==
    /\ crh.kind = "Some" /\ bytes = Unset
    /\ bytes' = Some(write_le(crh.val))
    /\ UNCHANGED <<NUM_WINDOWS, WINDOW_SIZE, message, input, crh, hashed, terms,
                   other, other_hashed, onceVars, domVars, fftVars, parVars,
                   extVars>>

\* other = BHPCRH::read_le(&bytes[..])
ReadLe ==
    /\ bytes.kind = "Some" /\ other = Unset
    /\ other' = read_le(bytes.val)
    /\ UNCHANGED <<NUM_WINDOWS, WINDOW_SIZE, message, input, crh, hashed, terms,
                   other_hashed, bytes, onceVars, domVars, fftVars, parVars,
                   extVars>>

\* other_hashed = other.hash_bits(&input)
OtherHashBits ==
    /\ other.kind \in {"Some", "Ok"} /\ other_hashed = Unset
    /\ LET r == hash_bits(other.val, input, build)
       IN  /\ other_hashed' = r.ret
           /\ other' = [other EXCEPT !.val = r.self]
    /\ UNCHANGED <<NUM_WINDOWS, WINDOW_SIZE, message, input, crh, hashed, terms,
                   bytes, onceVars, domVars, fftVars, parVars,
                   extVars>>

NextLife ==
    \/ Setup
    \/ \E bases \in BasesArguments : From(bases)
    \/ HashBits
    \/ HashBitsAgain
    \/ Clone
    \/ Rebuild
    \/ SetupAgain
    \/ WriteLe
    \/ ReadLe
    \/ OtherHashBits

SpecLife == InitLife /\ [][NextLife]_vars

\* crh.base_lookup(bases), the public method, with any argument
BaseLookup(bases) ==
    /\ crh.kind = "Some"
    /\ crh' = Some(base_lookup(crh.val, bases))
    /\ UNCHANGED <<NUM_WINDOWS, WINDOW_SIZE, message, input, hashed, terms,
                   other, other_hashed, bytes, onceVars, domVars, fftVars, parVars,
                   extVars>>

NextPublic ==
    \/ NextLife
    \/ \E bases \in BasesArguments : BaseLookup(bases)

SpecPublic == InitLife /\ [][NextPublic]_vars

----------------------------------------------------------------------------
(* Claims about an instance's life, checked under SpecLife and SpecPublic *)

\* The second instance exists: a clone, a rebuilt or a read-back instance
HasOther == other.kind \in {"Some", "Ok"}

C13_SameValue ==
    (crh.kind = "Some" /\ HasOther) =>
        /\ other.val.bases = crh.val.bases
        /\ (hashed # Unset /\ other_hashed # Unset) => other_hashed = hashed

C13_LaterCalls == hashed # Unset => hashed' = hashed

\* C13: hash_bits is deterministic: for fixed bases and a fixed input it
\* returns the same value on the first call (table absent), on every later
\* call (table cached), on a clone and on an instance rebuilt from the same
\* bases by from(bases) or read_le; a second setup with the same message
\* produces equal bases.
C13_Deterministic == [](C13_SameValue) /\ [][C13_LaterCalls]_vars

C13_Witness ==
    /\ hashed.kind = "Ok" /\ other_hashed = hashed
    /\ other.kind = "Some" /\ other.val.bases = crh.val.bases
    /\ message # "" /\ NUM_WINDOWS = 2 /\ WINDOW_SIZE = 2
    /\ Len(input) = 3 /\ input[1] /\ input[3]
    /\ hashed.val # to_x_coordinate(G_zero)

\* C14: for every instance built by setup or from(bases), with or without
\* an initialized cache, read_le of what write_le wrote succeeds, the result
\* has the same bases (window count, per-window count and every element in
\* order) and its base_lookup cache is uninitialized.
C14_RoundTrip ==
    (bytes.kind = "Some" /\ other.kind \in {"Ok", "Err"}) =>
        /\ other.kind = "Ok"
        /\ Len(other.val.bases) = Len(crh.val.bases)
        /\ \A w \in DOMAIN crh.val.bases :
               /\ Len(other.val.bases[w]) = Len(crh.val.bases[w])
               /\ \A j \in DOMAIN crh.val.bases[w] :
                      other.val.bases[w][j] = crh.val.bases[w][j]
        /\ other_hashed = Unset => other.val.base_lookup = None

C14_Witness ==
    /\ other.kind = "Ok" /\ other_hashed = Unset
    /\ other.val.base_lookup = None
    /\ crh.val.base_lookup.kind = "Some"
    /\ Len(crh.val.bases) = 2
    /\ Len(crh.val.bases[1]) = 2 /\ Len(crh.val.bases[2]) = 1

\* C16: in every state reachable by setup, from(bases), read_le, clone,
\* hash_bits and the public base_lookup(b) with an arbitrary argument b, an
\* initialized cache equals the table derived from the same instance's bases.
C16_CacheDerivedFromBases ==
    /\ (crh.kind = "Some" /\ crh.val.base_lookup.kind = "Some") =>
           crh.val.base_lookup.val = lookup_table(crh.val.bases)
    /\ (HasOther /\ other.val.base_lookup.kind = "Some") =>
           other.val.base_lookup.val = lookup_table(other.val.bases)

----------------------------------------------------------------------------
(* Specification of callers sharing one instance: each calls base_lookup,
   directly or through hash_bits, and runs through OnceCell's
   get_or_try_init: the fast path, the entry into the initialization, the
   closure, the wait for another caller's closure *)

\* The instance is shared by 1..MaxCallers callers.
MaxCallers == 2

Callers == 1 .. MaxCallers

\* A variant in which a caller that finds the cell empty runs the closure.
initialize_unguarded(cell, running) ==
    IF cell.kind = "Some" THEN "returned" ELSE "running"

\* OnceCell's initialize: where a caller goes that found the cell empty on
\* the fast path, given the cell and the caller now running the closure
initialize(cell, running) ==
    IF cell.kind = "Some" THEN "returned"
    ELSE IF running = 0 THEN "running"
    ELSE "waiting"

InitOnce ==
    /\ NUM_WINDOWS \in 1 .. MaxNumWindows
    /\ WINDOW_SIZE \in 1 .. MaxWindowSize
    /\ message \in Messages
    /\ crh = setup(message) /\ crh.kind = "Some"
    /\ build = "release" /\ input = <<>>
    /\ hashed = Unset /\ terms = <<>>
    /\ other = Unset /\ other_hashed = Unset /\ bytes = Unset
    /\ caller_pc = [t \in Callers |-> "idle"]
    /\ caller_bases = [t \in Callers |-> <<>>]
    /\ caller_ret = [t \in Callers |-> Unset]
    /\ initializer = 0 /\ init_runs = 0 /\ cell_writes = 0
    /\ domIdle /\ fftIdle /\ parIdle
    /\ quotIdle /\ idxIdle /\ failIdle

\* Caller t calls self.base_lookup(bases): hash_bits_inner hands in
\* self.bases, other callers of the public method any bases.
Call(t, bases) ==
    /\ caller_pc[t] \in {"idle", "returned"}
    /\ init_runs <= MaxCallers
    /\ caller_pc' = [caller_pc EXCEPT ![t] = "called"]
    /\ caller_bases' = [caller_bases EXCEPT ![t] = bases]
    /\ caller_ret' = [caller_ret EXCEPT ![t] = Unset]
    /\ UNCHANGED <<bhpVars, initializer, init_runs, cell_writes,
                   domVars, fftVars, parVars,
                   extVars>>

\* The fast path of get_or_try_init: self.get()
Get(t) ==
    /\ caller_pc[t] = "called"
    /\ IF crh.val.base_lookup.kind = "Some"
       THEN /\ caller_pc' = [caller_pc EXCEPT ![t] = "returned"]
            /\ caller_ret' = [caller_ret EXCEPT ![t] = crh.val.base_lookup]
       ELSE /\ caller_pc' = [caller_pc EXCEPT ![t] = "entering"]
            /\ caller_ret' = caller_ret
    /\ UNCHANGED <<bhpVars, caller_bases, initializer, init_runs, cell_writes,
                   domVars, fftVars, parVars,
                   extVars>>

\* The slow path: the caller becomes the initializer, waits for it, or finds
\* the cell filled meanwhile.
Enter(t) ==
    /\ caller_pc[t] = "entering"
    /\ LET to == initialize(crh.val.base_lookup, initializer)
       IN  /\ caller_pc' = [caller_pc EXCEPT ![t] = to]
           /\ initializer' = IF to = "running" THEN t ELSE initializer
           /\ init_runs' = IF to = "running" THEN init_runs + 1 ELSE init_runs
           /\ caller_ret' = IF to = "returned"
                            THEN [caller_ret EXCEPT ![t] = crh.val.base_lookup]
                            ELSE caller_ret
    /\ UNCHANGED <<bhpVars, caller_bases, cell_writes, domVars, fftVars, parVars,
                   extVars>>

\* The closure has built the table of the caller's bases: the cell is
\* written and the waiting callers are released.
Finish(t) ==
    /\ caller_pc[t] = "running"
    /\ crh' = Some([crh.val EXCEPT
                       !.base_lookup = Some(lookup_table(caller_bases[t]))])
    /\ cell_writes' = cell_writes + 1
    /\ initializer' = IF initializer = t THEN 0 ELSE initializer
    /\ caller_pc' = [caller_pc EXCEPT ![t] = "returned"]
    /\ caller_ret' = [caller_ret EXCEPT ![t] = Some(lookup_table(caller_bases[t]))]
    /\ UNCHANGED <<NUM_WINDOWS, WINDOW_SIZE, message, input, hashed, terms,
                   other, other_hashed, bytes, caller_bases, init_runs,
                   domVars, fftVars, parVars,
                   extVars>>

\* A waiting caller is released once the cell is filled.
Wake(t) ==
    /\ caller_pc[t] = "waiting"
    /\ crh.val.base_lookup.kind = "Some"
    /\ caller_pc' = [caller_pc EXCEPT ![t] = "returned"]
    /\ caller_ret' = [caller_ret EXCEPT ![t] = crh.val.base_lookup]
    /\ UNCHANGED <<bhpVars, caller_bases, initializer, init_runs, cell_writes,
                   domVars, fftVars, parVars,
                   extVars>>

NextOnce ==
    \/ \E t \in Callers : \E m \in Messages : Call(t, create_generators(m))
    \/ \E t \in Callers : Get(t)
    \/ \E t \in Callers : Enter(t)
    \/ \E t \in Callers : Finish(t)
    \/ \E t \in Callers : Wake(t)

SpecOnce == InitOnce /\ [][NextOnce]_vars

\* What the callers that have returned were handed
Returned == {caller_ret[t] : t \in {u \in Callers : caller_pc[u] = "returned"}}

C15_AtMostOnce ==
    /\ init_runs <= 1 /\ cell_writes <= 1
    /\ crh.val.base_lookup.kind = "Some" <=> cell_writes = 1
    /\ Returned \subseteq {crh.val.base_lookup}
    /\ Returned # {} => crh.val.base_lookup.kind = "Some"

C15_NeverOverwritten ==
    crh.val.base_lookup.kind = "Some" =>
        /\ crh' = crh
        /\ init_runs' = init_runs /\ cell_writes' = cell_writes

\* C15: when several threads call hash_bits / base_lookup on one instance
\* whose cache is empty, the closure runs at most once, the cell goes from
\* empty to filled exactly once and is never overwritten, every caller
\* returns the same table, and no later call recomputes it.
C15_SingleInitialization == [](C15_AtMostOnce) /\ [][C15_NeverOverwritten]_vars

C15_Witness ==
    /\ \A t \in Callers : caller_pc[t] = "returned"
    /\ caller_bases[1] # caller_bases[2]
    /\ caller_ret[1] = caller_ret[2]
    /\ caller_ret[2] = Some(lookup_table(caller_bases[2]))
    /\ init_runs = 1

----------------------------------------------------------------------------
(* Claims about the quotient by the vanishing polynomial and about the
   length handling of the transforms *)

\* The first min(Len(v), n) elements of v.
FirstN(v, n) == [i \in 1 .. (IF Len(v) < n THEN Len(v) ELSE n) |-> v[i]]

\* C22: the vanishing polynomial takes the single value g^size - 1 on the
\* coset g * w^i; divide_by_vanishing_poly_on_coset_in_place never panics on a
\* constructed domain, keeps the length of the vector and replaces every
\* element by itself times the inverse of that value.
C22_DivideByVanishingPoly ==
    domain.kind = "Some" =>
        LET D == domain.val
            g == multiplicative_generator
            z == sub(pow(g, D.size), one)
        IN  /\ \A i \in 0 .. (D.size - 1) :
                   evaluate_vanishing_polynomial(D, mul(g, ElementAt(D, i))) = z
            /\ z # zero
            /\ quotient # Unset =>
                   /\ quotient.kind = "Some"
                   /\ Len(quotient.val) = Len(coeffs)
                   /\ \A k \in 1 .. Len(coeffs) :
                          /\ mul(quotient.val[k], z) = coeffs[k]
                          /\ quotient.val[k] = mul(coeffs[k], pow(z, P - 2))

C22_Witness ==
    /\ domain.kind = "Some" /\ domain.val.size = 4
    /\ quotient.kind = "Some" /\ Len(coeffs) = 3
    /\ coeffs[2] # zero /\ quotient.val[2] # coeffs[2]

\* C24: after fft_in_place or ifft_in_place on a vector of any length the
\* vector has exactly size elements; the result is the transform of the first
\* size elements of the input, zero-padded, so elements at positions >= size
\* are discarded; ifft_in_place multiplies every output of the kernel by
\* size_inv.
C24_TransformLength ==
    domain.kind = "Some" =>
        LET D == domain.val
            head == FirstN(coeffs, D.size)
        IN  /\ evals # Unset =>
                   /\ evals.kind = "Some"
                   /\ Len(evals.val) = D.size
                   /\ \A i \in 0 .. (D.size - 1) :
                          evals.val[i + 1] =
                              evaluate(head, pow(D.group_gen, i))
            /\ inverted # Unset =>
                   /\ inverted.kind = "Some"
                   /\ Len(inverted.val) = D.size
                   /\ \A i \in 0 .. (D.size - 1) :
                          inverted.val[i + 1] =
                              mul(evaluate(head, pow(D.group_gen_inv, i)),
                                  D.size_inv)

C24_Witness ==
    /\ domain.kind = "Some" /\ domain.val.size = 4
    /\ Len(coeffs) = 5 /\ coeffs[5] # zero /\ coeffs[1] # zero
    /\ evals.kind = "Some" /\ inverted.kind = "Some"
    /\ inverted.val # evals.val

----------------------------------------------------------------------------
(* Re-indexing by a subdomain and the table of roots of unity *)

\* The size of the table of powers, in bits, up to which it is computed
\* serially; 7 in the source, scaled to the domains of this field.
LOG_ROOTS_OF_UNITY_PARALLEL_SIZE == 1

\* log2: (number as f64).log2() as usize, the truncated binary logarithm.
RECURSIVE log2(_)
log2(number) ==
    IF number <= 1 THEN 0 ELSE 1 + log2(number \div 2)

\* The re-indexing without the positions skipped for the subdomain.
reindex_without_skip(D, other_, index) ==
    IF D.size < other_.size THEN Panic
    ELSE
    LET period == D.size \div other_.size IN
    IF index < other_.size THEN Some(index * period)
    ELSE Some(index - other_.size + 1)

\* reindex_by_subdomain: the assert, then the two cases; i / x panics when
\* x = period - 1 is zero.
reindex_by_subdomain(D, other_, index) ==
    IF D.size < other_.size THEN Panic
    ELSE
    LET period == D.size \div other_.size IN
    IF index < other_.size THEN Some(index * period)
    ELSE
    LET i == index - other_.size
        x == period - 1 IN
    IF x = 0 THEN Panic
    ELSE Some(i + (i \div x) + 1)

\* The loop of compute_powers_serial: size values pushed, value *= root after
\* each.
RECURSIVE compute_powers_loop(_, _, _)
compute_powers_loop(value, size, root) ==
    IF size = 0 THEN <<>>
    ELSE <<value>> \o compute_powers_loop(mul(value, root), size - 1, root)

\* compute_powers_serial
compute_powers_serial(size, root) == compute_powers_loop(one, size, root)

\* log_powers: n successive squarings of tmp, each old value kept.
RECURSIVE log_powers(_, _)
log_powers(tmp_, n) ==
    IF n = 0 THEN <<>>
    ELSE <<tmp_>> \o log_powers(mul(tmp_, tmp_), n - 1)

\* The recombination with the roles of the two scratch tables exchanged.
combine_by_high(scr_low, scr_high) ==
    [k \in 1 .. (Len(scr_low) * Len(scr_high)) |->
        mul(scr_low[((k - 1) \div Len(scr_high)) + 1],
            scr_high[((k - 1) % Len(scr_high)) + 1])]

\* The recombination in roots_of_unity_recursive: the chunk c of scr_low.len()
\* powers is scr_high[c] * scr_low[j].
combine(scr_low, scr_high) ==
    [k \in 1 .. (Len(scr_low) * Len(scr_high)) |->
        mul(scr_high[((k - 1) \div Len(scr_low)) + 1],
            scr_low[((k - 1) % Len(scr_low)) + 1])]

\* roots_of_unity_recursive on an output of len elements; the two halves of
\* rayon::join write disjoint scratch tables.
RECURSIVE roots_of_unity_recursive(_, _)
roots_of_unity_recursive(len, lp) ==
    IF len # Pow2(Len(lp)) THEN Panic
    ELSE IF Len(lp) <= LOG_ROOTS_OF_UNITY_PARALLEL_SIZE
    THEN Some(IF Len(lp) = 0 THEN <<one>>
              ELSE compute_powers_loop(one, len, lp[1]))
    ELSE
    LET mid == (1 + Len(lp)) \div 2
        lr_low == SubSeq(lp, 1, mid)
        lr_high == SubSeq(lp, mid + 1, Len(lp))
        scr_low == roots_of_unity_recursive(Pow2(Len(lr_low)), lr_low)
        scr_high == roots_of_unity_recursive(Pow2(Len(lr_high)), lr_high)
    IN  Some(combine(scr_low.val, scr_high.val))

\* roots_of_unity, without and with the parallel feature.
roots_of_unity(D, root, par) ==
    IF ~par THEN Some(compute_powers_serial(D.size \div 2, root))
    ELSE
    LET log_size == log2(D.size) IN
    IF log_size <= LOG_ROOTS_OF_UNITY_PARALLEL_SIZE
    THEN Some(compute_powers_serial(D.size \div 2, root))
    ELSE roots_of_unity_recursive(Pow2(log_size - 1),
                                  log_powers(root, log_size - 1))

\* Longest list of squarings handed to roots_of_unity_recursive: long enough
\* for a fork whose lower half forks again.
MaxLogPowers == TWO_ADICITY + 1

InitIndex ==
    /\ build = "release"
    /\ num_coeffs \in 0 .. USIZE_MAX
    /\ domain = new(num_coeffs, build)
    /\ domain.kind = "Some"
    /\ num_coeffs = domain.val.size
    /\ domQueriesIdle /\ fftIdle /\ parIdle /\ bhpIdle
    /\ quotIdle /\ idxIdle /\ failIdle

\* roots = domain.roots_of_unity(domain.group_gen)
RootsOfUnity ==
    /\ roots = Unset
    /\ \E par \in BOOLEAN :
           roots' = [parallel |-> par,
                     ret |-> roots_of_unity(domain.val, domain.val.group_gen, par)]
    /\ UNCHANGED <<domVars, fftVars, parVars, bhpVars, onceVars,
                   quotient, inverted, powers, reindexed, failed>>

\* roots_of_unity_recursive(&mut powers, &log_powers) for the n squarings of
\* any root
RootsOfUnityRecursive ==
    /\ powers = Unset
    /\ \E root \in Field, n \in 0 .. MaxLogPowers :
           powers' = [root |-> root, n |-> n,
                      ret |-> roots_of_unity_recursive(Pow2(n), log_powers(root, n))]
    /\ UNCHANGED <<domVars, fftVars, parVars, bhpVars, onceVars,
                   quotient, inverted, roots, reindexed, failed>>

\* reindexed = domain.reindex_by_subdomain(other, index)
ReindexBySubdomain ==
    /\ reindexed = Unset
    /\ \E other_domain \in Domains, index \in 0 .. Pow2(TWO_ADICITY) :
           reindexed' = [other |-> other_domain, index |-> index,
                         ret |-> reindex_by_subdomain(domain.val, other_domain, index)]
    /\ UNCHANGED <<domVars, fftVars, parVars, bhpVars, onceVars,
                   quotient, inverted, roots, powers, failed>>

NextIndex ==
    \/ RootsOfUnity
    \/ RootsOfUnityRecursive
    \/ ReindexBySubdomain

SpecIndex == InitIndex /\ [][NextIndex]_vars

\* Multiples of period below size.
Multiples(period, size) == {k \in 0 .. (size - 1) : k % period = 0}

\* C21: for constructed domains G = self and S = other with G.size >= S.size
\* and period = G.size / S.size, reindex_by_subdomain restricted to the
\* positions below G.size never panics and is a bijection onto them: a
\* position below S.size goes to position * period, so these hit exactly the
\* multiples of period; a later position index goes to i + i / (period - 1) + 1
\* with i = index - S.size, and these hit exactly the non-multiples, in
\* increasing order.
C21_ReindexBySubdomain ==
    (domain.kind = "Some" /\ reindexed # Unset
        /\ domain.val.size >= reindexed.other.size) =>
        LET D == domain.val
            S == reindexed.other
            period == D.size \div S.size
            f(i) == reindex_by_subdomain(D, S, i)
            below == 0 .. (D.size - 1)
        IN  /\ reindexed.index < D.size =>
                   /\ reindexed.ret.kind = "Some"
                   /\ reindexed.index < S.size =>
                          reindexed.ret.val = reindexed.index * period
                   /\ reindexed.index >= S.size =>
                          LET i == reindexed.index - S.size IN
                          reindexed.ret.val = i + (i \div (period - 1)) + 1
            /\ \A i \in below : f(i).kind = "Some" /\ f(i).val \in below
            /\ \A i, j \in below : f(i) = f(j) => i = j
            /\ {f(i).val : i \in 0 .. (S.size - 1)} = Multiples(period, D.size)
            /\ {f(i).val : i \in S.size .. (D.size - 1)} =
                   below \ Multiples(period, D.size)
            /\ \A i, j \in S.size .. (D.size - 1) :
                   i < j => f(i).val < f(j).val

C21_Witness ==
    /\ domain.kind = "Some" /\ domain.val.size = 4
    /\ reindexed # Unset /\ reindexed.other.size = 2 /\ reindexed.index = 3
    /\ reindexed.ret = Some(3)

\* C25: roots_of_unity(group_gen) has size / 2 entries (none for size 1), its
\* k-th entry is the k-th item of elements(), every entry is a root of the
\* vanishing polynomial, and the recursive fork-join computation returns what
\* compute_powers_serial returns for the same number of powers of the root.
C25_RootsOfUnity ==
    /\ (domain.kind = "Some" /\ roots # Unset) =>
           LET D == domain.val IN
           /\ roots.ret.kind = "Some"
           /\ Len(roots.ret.val) = D.size \div 2
           /\ D.size = 1 => roots.ret.val = <<>>
           /\ \A k \in 0 .. (Len(roots.ret.val) - 1) :
                  /\ roots.ret.val[k + 1] = ElementAt(D, k)
                  /\ evaluate_vanishing_polynomial(D, roots.ret.val[k + 1]) = zero
           /\ roots.ret.val = compute_powers_serial(D.size \div 2, D.group_gen)
    /\ powers # Unset =>
           /\ powers.ret.kind = "Some"
           /\ powers.ret.val = compute_powers_serial(Pow2(powers.n), powers.root)
           /\ \A k \in 0 .. (Pow2(powers.n) - 1) :
                  powers.ret.val[k + 1] = pow(powers.root, k)

C25_Witness ==
    /\ domain.kind = "Some" /\ domain.val.size = 4
    /\ roots # Unset /\ roots.parallel /\ Len(roots.ret.val) = 2
    /\ roots.ret.val[2] # one
    /\ powers # Unset /\ powers.n > LOG_ROOTS_OF_UNITY_PARALLEL_SIZE
    /\ powers.root = 2
    /\ powers.n = MaxLogPowers
    /\ powers.ret.kind = "Some" /\ powers.ret.val[8] # powers.ret.val[2]

----------------------------------------------------------------------------
(* The second branch of evaluate_all_lagrange_coefficients *)

\* C26: when tau^size # 1, none of the values u[i] = tau - w^i handed to
\* batch_inversion is zero, and the i-th coefficient returned is
\* ((tau^size - 1) / size) * w^i / (tau - w^i).
C26_LagrangeSecondBranch ==
    (domain.kind = "Some" /\ lagrange.kind = "Some"
        /\ pow(tau, domain.val.size) # one) =>
        LET D == domain.val
            zeros == [i \in 1 .. D.size |-> zero]
            l == mul(sub(pow(tau, D.size), one), D.size_inv)
            u == lagrange_fill(zeros, zeros, l, one, 0, D, tau)[1]
        IN  /\ Len(u) = D.size /\ Len(lagrange.val) = D.size
            /\ \A i \in 0 .. (D.size - 1) :
                   LET w_i == pow(D.group_gen, i) IN
                   /\ u[i + 1] = sub(tau, w_i)
                   /\ u[i + 1] # zero
                   /\ mul(D.size_inv, from_u64(D.size)) = one
                   /\ lagrange.val[i + 1] =
                          mul(mul(l, w_i), inverse(sub(tau, w_i)).val)

C26_Witness ==
    /\ domain.kind = "Some" /\ domain.val.size = 2
    /\ lagrange.kind = "Some"
    /\ pow(tau, 2) # one /\ tau # zero
    /\ lagrange.val[1] # lagrange.val[2]

----------------------------------------------------------------------------
(* The value of the hash *)

\* (1 - 2 * b2) * (1 + b0 + 2 * b1)
Coefficient(b0, b1, b2) == (1 - 2 * b2) * (1 + b0 + 2 * b1)

\* Bit p (from 0) of the input padded with false, as a number
Bit(p) == IF PaddedBit(p + 1) THEN 1 ELSE 0

\* ceil(WINDOW_SIZE * NUM_WINDOWS / 3)
NumChunks == (WINDOW_SIZE * NUM_WINDOWS + 2) \div 3

\* The term of chunk c (from 0)
ChunkTerm(c) ==
    G_mul(Coefficient(Bit(3 * c), Bit(3 * c + 1), Bit(3 * c + 2)),
          crh.val.bases[(c \div WINDOW_SIZE) + 1][(c % WINDOW_SIZE) + 1])

\* The sum of the terms of the chunks lo .. hi - 1
RECURSIVE SumChunks(_, _)
SumChunks(lo, hi) ==
    IF lo >= hi THEN G_zero ELSE G_add(ChunkTerm(lo), SumChunks(lo + 1, hi))

\* The sum over the windows from w on of the sum of each window's chunks
RECURSIVE SumWindows(_)
SumWindows(w) ==
    IF w * WINDOW_SIZE >= NumChunks THEN G_zero
    ELSE G_add(SumChunks(w * WINDOW_SIZE, min((w + 1) * WINDOW_SIZE, NumChunks)),
               SumWindows(w + 1))

C29_TrailingFalseBits ==
    (crh.kind = "Some" /\ hashed # Unset /\ hashed.kind = "Ok") =>
        \A k \in 0 .. (WINDOW_SIZE * NUM_WINDOWS - Len(input)) :
            hash_bits(crh.val, input \o [i \in 1 .. k |-> FALSE], build).ret
                = hashed

C29_Witness ==
    /\ hashed.kind = "Ok"
    /\ NUM_WINDOWS = 2 /\ WINDOW_SIZE = 2
    /\ Len(input) = 2 /\ input[2]
    /\ hash_bits(crh.val, input \o <<FALSE, FALSE>>, build).ret.kind = "Ok"

----------------------------------------------------------------------------
(* Instances that were not built by setup, and rejected calls *)

\* The input followed by WINDOW_SIZE * NUM_WINDOWS + 1 true bits: too long
\* for the instance whatever the input is.
long_input == input \o [i \in 1 .. (WINDOW_SIZE * NUM_WINDOWS + 1) |-> TRUE]

\* failed = crh.hash_bits(&long_input), at any time
FailedHashBits ==
    /\ crh.kind = "Some" /\ failed = Unset
    /\ LET r == hash_bits(crh.val, long_input, build)
       IN  /\ failed' = r.ret
           /\ crh' = Some(r.self)
    /\ UNCHANGED <<NUM_WINDOWS, WINDOW_SIZE, message, input, hashed, terms,
                   other, other_hashed, bytes, onceVars, domVars, fftVars, parVars,
                   quotient, inverted, roots, powers, reindexed>>

NextFail ==
    \/ Setup
    \/ \E bases \in BasesArguments : From(bases)
    \/ HashBits
    \/ HashBitsAgain
    \/ FailedHashBits

SpecFail == InitLife /\ [][NextFail]_vars

\* C27: every instance, whether built by setup, by from(bases) or by read_le,
\* has exactly NUM_WINDOWS windows of exactly WINDOW_SIZE generators, so the
\* dimension assertions of hash_bits_inner never fail and every segment of
\* the buffer meets a window of the table.
C27_Dimensions ==
    /\ crh.kind = "Some" => has_dimensions(crh.val.bases)
    /\ HasOther => has_dimensions(other.val.bases)
    /\ hashed # Unset => hashed.kind # "Panic"
    /\ other_hashed # Unset => other_hashed.kind # "Panic"
    /\ hashed.kind = "Ok" => Len(terms) = Len(segments(buf_slice(input)))

C28_State ==
    /\ failed # Unset => failed.kind = "Err"
    /\ (failed # Unset /\ hashed = Unset) => crh.val.base_lookup = None
    /\ (crh.kind = "Some" /\ hashed # Unset) =>
           LET fresh == hash_bits(from(crh.val.bases), input, build)
           IN  /\ hashed = fresh.ret
               /\ terms = fresh.terms
               /\ crh.val.base_lookup \in {None, fresh.self.base_lookup}

C28_Step == (failed = Unset /\ failed' # Unset) => crh' = crh

\* C28: a hash_bits call that fails with IncorrectInputLength leaves the
\* instance as it was: the bases are untouched and a cache that was empty
\* stays empty; a later call with a valid input returns what it returns on
\* an instance that never saw the failed call.
C28_FailedCallLeavesInstance == [](C28_State) /\ [][C28_Step]_vars

C28_Witness ==
    /\ failed.kind = "Err" /\ hashed.kind = "Ok"
    /\ crh.val.base_lookup.kind = "Some"
    /\ NUM_WINDOWS = 2 /\ WINDOW_SIZE = 2 /\ Len(input) = 3 /\ input[3]
    /\ message = "b"

\* C30: the derived == depends on the bases only: two instances with equal
\* bases compare equal in every reachable state, whether or not either has
\* hashed; an instance equals a clone taken before its first hash_bits call
\* and equals read_le(write_le(instance)) after it has hashed.
C30_EqualityOnBases ==
    (crh.kind = "Some" /\ HasOther) =>
        (eq(crh.val, other.val) <=> crh.val.bases = other.val.bases)

====
